---- MODULE Spec2Model ----
(***************************************************************************)
(* Face-matching and identity-confirmation engine of xhello/timesheet:     *)
(* the ConsecutiveMatchTracker of web/src/lib/faceDetection.ts, driven     *)
(* call by call (TrackerSpec); detectFace, findMatchingEmployee and        *)
(* descriptorToObject of the same file, each called once on an input drawn *)
(* from a bounded set (CallSpec); the polling capture session of the       *)
(* ClockInOut screen, web/src/app/employee/page.tsx (Spec); that session,  *)
(* the one of the enrolment screen web/src/components/SignUpEmployee.tsx   *)
(* or the one of the portal's FaceAuth screen (ScreensSpec); and the       *)
(* loading of the face-api models, loadFaceModels (LoaderSpec).            *)
(***************************************************************************)
EXTENDS Integers, Sequences, FiniteSets, TLC

\* ------------------------------------------------------------------ bounds
MaxRequired == 3      \* requiredMatches ranges over 1..MaxRequired
MaxEvents == 6        \* calls made on one tracker instance in TrackerSpec
MaxFrames == 2        \* frames a session hands to detectFace
MaxRecaptures == 1    \* handleRecapture / handleRetry calls in a session
MaxLoads == 2         \* loads of the models started in LoaderSpec
MaxCallers == 3       \* calls that need the models in LoaderSpec
MaxRoster == 3        \* employees in a roster handed to the matcher

\* --------------------------------------------------------- program constants
REQUIRED_CONSECUTIVE_MATCHES == 1
MIN_FACE_AREA == 10000            \* pixels squared
MIN_DETECTION_CONFIDENCE == 50    \* 0.5, detection.score is in hundredths
MIN_LIVENESS_SCORE == 400000      \* 0.4, in units of 1 / LivenessScale
MATCH_THRESHOLD == 550            \* 0.55, distances are in thousandths
Infinity == 1000000000            \* above every distance
README_MATCH_THRESHOLD == 600     \* 0.6, the threshold the README documents

\* ------------------------------------------------------------------ values
NULL == "<null>"
EmployeeIds == {"E1", "E2"}
\* what a caller can pass as `employeeId: string | null`
MatchArgs == EmployeeIds \cup {NULL, ""}

NoResult == [confirmed |-> FALSE, employeeId |-> NULL, streak |-> -1]

VARIABLES
    \* ConsecutiveMatchTracker (matchTrackerRef.current in a session)
    requiredMatches,   \* ConsecutiveMatchTracker.requiredMatches
    matches,           \* ConsecutiveMatchTracker.matches
    lastResult,        \* value returned by the latest addMatch call
    prevMatches,       \* tracker.matches just before the latest call
    events,            \* calls made on the tracker since construction
    \* ClockInOut component
    status,            \* useState<Status>
    message,           \* useState message
    matchedEmployee,   \* useState<Employee | null>
    matchStreak,       \* useState matchStreak
    hasActiveEntry,    \* useState hasActiveEntry
    employees,         \* useState<Employee[]>
    employeesRef,      \* employeesRef.current
    intervalRef,       \* detectionIntervalRef.current holds a live interval
    cleanupRegistered, \* the detection effect's last run returned its cleanup
    effectDeps,        \* [status, matchedEmployee] of the detection effect's last run
    mounted,           \* the component is mounted
    inflight,          \* interval callbacks suspended at an await
    frameSeq,          \* frames handed to detectFace so far
    fed,               \* frame numbers in the order their cycles called addMatch
    recaptures,        \* handleRecapture calls so far
    lastCycle,         \* the detection cycle that completed last
    component,         \* the screen that is mounted
    capturedDescriptor,\* SignUpEmployee: descriptor captured for enrolment
    existingEmployee,  \* SignUpEmployee: employee the face is registered to
    \* one call of an exported function of faceDetection.ts
    call,              \* the function called and its arguments
    returned,          \* what the call returned
    \* FaceAuth component
    onSuccessTimers,   \* the setTimeout(() => onSuccess(emp), 1000) calls made
    \* module state of faceDetection.ts
    modelsLoaded,      \* let modelsLoaded
    modelsLoading,     \* let modelsLoading: the load it is the promise of, or 0
    loads,             \* the loads started so far and how each ended
    callers            \* the calls made so far and the load each awaits

trackerVars == <<requiredMatches, matches, lastResult, prevMatches, events>>

sessionVars == <<status, message, matchedEmployee, matchStreak, hasActiveEntry,
                 employees, employeesRef, intervalRef, cleanupRegistered,
                 effectDeps, mounted, inflight, frameSeq, fed, recaptures,
                 lastCycle, component, capturedDescriptor, existingEmployee>>

signUpVars == <<capturedDescriptor, existingEmployee>>

callVars == <<call, returned>>

authVars == <<onSuccessTimers>>

loaderVars == <<modelsLoaded, modelsLoading, loads, callers>>

vars == <<requiredMatches, matches, lastResult, prevMatches, events,
          status, message, matchedEmployee, matchStreak, hasActiveEntry,
          employees, employeesRef, intervalRef, cleanupRegistered,
          effectDeps, mounted, inflight, frameSeq, fed, recaptures,
          lastCycle, component, capturedDescriptor, existingEmployee,
          call, returned, onSuccessTimers,
          modelsLoaded, modelsLoading, loads, callers>>

Min(a, b) == IF a <= b THEN a ELSE b
Max(a, b) == IF a >= b THEN a ELSE b

\* no exported function has been called / the call has not returned yet
\* no detection cycle has completed yet
NoCycle == [frame |-> 0]

\* a null descriptor; a descriptor is a non-empty vector
NoDescriptor == <<>>

NoCall == [fn |-> "none"]

\* the module as evaluated: modelsLoaded = false, modelsLoading = null
LoaderIdle ==
    /\ modelsLoaded = FALSE
    /\ modelsLoading = 0
    /\ loads = <<>>
    /\ callers = <<>>
NotReturned == [done |-> FALSE]
Returned(value) == [done |-> TRUE, value |-> value]

\* ---------------------------------------------------- ConsecutiveMatchTracker
\* `!employeeId` : null and the empty string are both falsy
Falsy(employeeId) == employeeId = NULL \/ employeeId = ""

\* Array.prototype.slice(-n) for n >= 1
SliceLast(s, n) == IF Len(s) <= n THEN s ELSE SubSeq(s, Len(s) - n + 1, Len(s))

\* mutant: the no-match branch forgets to clear the history
AddMatch_KeepOnNull(m, R, employeeId) ==
    IF Falsy(employeeId)
    THEN [matches |-> m,
          result |-> [confirmed |-> FALSE, employeeId |-> NULL, streak |-> Len(m)]]
    ELSE IF Len(m) > 0 /\ m[Len(m)] # employeeId
    THEN [matches |-> <<employeeId>>,
          result |-> [confirmed |-> FALSE, employeeId |-> employeeId, streak |-> 1]]
    ELSE LET pushed == Append(m, employeeId)
             trimmed == IF Len(pushed) > R + 2 THEN SliceLast(pushed, R + 2) ELSE pushed
         IN [matches |-> trimmed,
             result |-> [confirmed |-> Len(trimmed) >= R,
                         employeeId |-> employeeId, streak |-> Len(trimmed)]]

\* mutant: a different person does not reset the history
AddMatch_NoPersonReset(m, R, employeeId) ==
    IF Falsy(employeeId)
    THEN [matches |-> <<>>,
          result |-> [confirmed |-> FALSE, employeeId |-> NULL, streak |-> 0]]
    ELSE LET pushed == Append(m, employeeId)
             trimmed == IF Len(pushed) > R + 2 THEN SliceLast(pushed, R + 2) ELSE pushed
         IN [matches |-> trimmed,
             result |-> [confirmed |-> Len(trimmed) >= R,
                         employeeId |-> employeeId, streak |-> Len(trimmed)]]

\* mutant: confirmation compares with > instead of >=
AddMatch_StrictConfirm(m, R, employeeId) ==
    IF Falsy(employeeId)
    THEN [matches |-> <<>>,
          result |-> [confirmed |-> FALSE, employeeId |-> NULL, streak |-> 0]]
    ELSE IF Len(m) > 0 /\ m[Len(m)] # employeeId
    THEN [matches |-> <<employeeId>>,
          result |-> [confirmed |-> FALSE, employeeId |-> employeeId, streak |-> 1]]
    ELSE LET pushed == Append(m, employeeId)
             trimmed == IF Len(pushed) > R + 2 THEN SliceLast(pushed, R + 2) ELSE pushed
         IN [matches |-> trimmed,
             result |-> [confirmed |-> Len(trimmed) > R,
                         employeeId |-> employeeId, streak |-> Len(trimmed)]]

\* mutant: the trim is dropped, the history grows with the run
AddMatch_NoTrim(m, R, employeeId) ==
    IF Falsy(employeeId)
    THEN [matches |-> <<>>,
          result |-> [confirmed |-> FALSE, employeeId |-> NULL, streak |-> 0]]
    ELSE IF Len(m) > 0 /\ m[Len(m)] # employeeId
    THEN [matches |-> <<employeeId>>,
          result |-> [confirmed |-> FALSE, employeeId |-> employeeId, streak |-> 1]]
    ELSE LET pushed == Append(m, employeeId)
         IN [matches |-> pushed,
             result |-> [confirmed |-> Len(pushed) >= R,
                         employeeId |-> employeeId, streak |-> Len(pushed)]]

\* ConsecutiveMatchTracker.addMatch: the new history and the returned object
AddMatch(m, R, employeeId) ==
    IF Falsy(employeeId)
    THEN \* Reset on no match
         [matches |-> <<>>,
          result |-> [confirmed |-> FALSE, employeeId |-> NULL, streak |-> 0]]
    ELSE IF Len(m) > 0 /\ m[Len(m)] # employeeId
    THEN \* Different person - reset
         [matches |-> <<employeeId>>,
          result |-> [confirmed |-> FALSE, employeeId |-> employeeId, streak |-> 1]]
    ELSE LET pushed == Append(m, employeeId)
             \* Trim to only keep recent matches
             trimmed == IF Len(pushed) > R + 2 THEN SliceLast(pushed, R + 2) ELSE pushed
         IN [matches |-> trimmed,
             result |-> [confirmed |-> Len(trimmed) >= R,
                         employeeId |-> employeeId, streak |-> Len(trimmed)]]

\* mutant: reset leaves the history in place
Reset_Noop(m) == m

\* ConsecutiveMatchTracker.reset
Reset(m) == <<>>

\* ConsecutiveMatchTracker.getStreak
GetStreak(m) == Len(m)

AddEvent(x) == [op |-> "addMatch", id |-> x]
ResetEvent == [op |-> "reset", id |-> NULL]


\* ------------------------------------------------------------ detectFace
\* Scores are exact rationals kept as numerators over a fixed denominator.
\* A liveness score l is kept as l * LivenessScale, a quality score q as
\* q * QualityScale.
LivenessScale == 100 * 2 * 10 * 10 * 10 * 5
QualityScale == 100 * 80000 * 10 * 10

NoDetection == [detected |-> FALSE]

\* What faceapi.detectSingleFace(...).withFaceLandmarks().withFaceDescriptor()
\* hands to detectFace, with the landmark geometry read off as the measures
\* the scorers compute from it: score in hundredths, box in pixels, eyeAngle
\* in hundredths of a radian, openness ratios in hundredths.
Detections ==
    [ detected : {TRUE},
      score : {40, 49, 50, 60, 75, 90, 100},
      box : {[width |-> 99, height |-> 101], [width |-> 100, height |-> 100],
             [width |-> 150, height |-> 150], [width |-> 200, height |-> 200],
             [width |-> 250, height |-> 250]},
      eyeAngle : {5, 20, 21},
      horizontalOffset : {10, 18, 19},
      eyeDistance : {60},
      leftEyeOpenness : {12, 19, 20, 24, 25, 30},
      rightEyeOpenness : {25, 30},
      mouthOpenness : {20, 50, 51},
      descriptor : {<<0, 0>>} ]

FaceArea(detection) == detection.box.width * detection.box.height

\* mutant: the tilt penalty is applied as a bonus
CalculateQualityScore_TiltBonus(detection) ==
    LET sizeNum == 40000 + Min(FaceArea(detection), 40000)
        tilt == IF detection.eyeAngle > 20 THEN 14 ELSE 10
        yaw == IF detection.horizontalOffset * 10 > detection.eyeDistance * 3
               THEN 6 ELSE 10
    IN Min(detection.score * sizeNum * tilt * yaw, QualityScale)

\* calculateQualityScore, as a numerator over QualityScale
CalculateQualityScore(detection) ==
    LET \* 0.5 + min(faceArea / 40000, 1.0) * 0.5, over 80000
        sizeNum == 40000 + Min(FaceArea(detection), 40000)
        \* eyeAngle > 0.2 : score *= 0.7
        tilt == IF detection.eyeAngle > 20 THEN 7 ELSE 10
        \* horizontalOffset > eyeDistance * 0.3 : score *= 0.6
        yaw == IF detection.horizontalOffset * 10 > detection.eyeDistance * 3
               THEN 6 ELSE 10
    IN Min(detection.score * sizeNum * tilt * yaw, QualityScale)

\* calculateLivenessScore, as a numerator over LivenessScale
CalculateLivenessScore(detection) ==
    LET l == detection.leftEyeOpenness
        r == detection.rightEyeOpenness
        \* faceArea < MIN_FACE_AREA : score *= 0.5
        size == IF FaceArea(detection) < MIN_FACE_AREA THEN 1 ELSE 2
        eyes == IF l < 20 \/ r < 20 THEN 5
                ELSE IF l < 25 \/ r < 25 THEN 7 ELSE 10
        \* min / max < 0.5 : score *= 0.8
        symmetry == IF 2 * Min(l, r) < (IF l >= r THEN l ELSE r) THEN 8 ELSE 10
        mouth == IF detection.mouthOpenness > 50 THEN 8 ELSE 10
    IN Min(5 * detection.score * size * eyes * symmetry * mouth, LivenessScale)

\* mutant: the face-size gate is tested before the confidence gate
DetectFace_AreaFirst(detection) ==
    IF ~detection.detected
    THEN [detected |-> FALSE, descriptor |-> NoDescriptor, livenessScore |-> 0,
          qualityScore |-> 0,
          message |-> "No face detected. Please position your face in the frame."]
    ELSE IF FaceArea(detection) < MIN_FACE_AREA
    THEN [detected |-> TRUE, descriptor |-> NoDescriptor, livenessScore |-> 0,
          qualityScore |-> 3 * (QualityScale \div 10),
          message |-> "Please move closer to the camera."]
    ELSE IF detection.score < MIN_DETECTION_CONFIDENCE
    THEN [detected |-> TRUE, descriptor |-> NoDescriptor, livenessScore |-> 0,
          qualityScore |-> detection.score * (QualityScale \div 100),
          message |-> "Face unclear. Please improve lighting and hold still."]
    ELSE LET qualityScore == CalculateQualityScore(detection)
             livenessScore == CalculateLivenessScore(detection)
         IN IF 2 * qualityScore < QualityScale
            THEN [detected |-> TRUE, descriptor |-> NoDescriptor,
                  livenessScore |-> livenessScore, qualityScore |-> qualityScore,
                  message |-> "Please face the camera directly and hold still."]
            ELSE IF livenessScore < MIN_LIVENESS_SCORE
            THEN [detected |-> TRUE, descriptor |-> NoDescriptor,
                  livenessScore |-> livenessScore, qualityScore |-> qualityScore,
                  message |-> "Please keep your eyes open and look at the camera."]
            ELSE [detected |-> TRUE, descriptor |-> detection.descriptor,
                  livenessScore |-> livenessScore, qualityScore |-> qualityScore,
                  message |-> "Face verified successfully!"]

\* mutant: the liveness gate is missing
DetectFace_NoLivenessGate(detection) ==
    IF ~detection.detected
    THEN [detected |-> FALSE, descriptor |-> NoDescriptor, livenessScore |-> 0,
          qualityScore |-> 0,
          message |-> "No face detected. Please position your face in the frame."]
    ELSE IF detection.score < MIN_DETECTION_CONFIDENCE
    THEN [detected |-> TRUE, descriptor |-> NoDescriptor, livenessScore |-> 0,
          qualityScore |-> detection.score * (QualityScale \div 100),
          message |-> "Face unclear. Please improve lighting and hold still."]
    ELSE IF FaceArea(detection) < MIN_FACE_AREA
    THEN [detected |-> TRUE, descriptor |-> NoDescriptor, livenessScore |-> 0,
          qualityScore |-> 3 * (QualityScale \div 10),
          message |-> "Please move closer to the camera."]
    ELSE LET qualityScore == CalculateQualityScore(detection)
             livenessScore == CalculateLivenessScore(detection)
         IN IF 2 * qualityScore < QualityScale
            THEN [detected |-> TRUE, descriptor |-> NoDescriptor,
                  livenessScore |-> livenessScore, qualityScore |-> qualityScore,
                  message |-> "Please face the camera directly and hold still."]
            ELSE [detected |-> TRUE, descriptor |-> detection.descriptor,
                  livenessScore |-> livenessScore, qualityScore |-> qualityScore,
                  message |-> "Face verified successfully!"]

\* detectFace, from the detection the detector produced for the frame
DetectFace(detection) ==
    IF ~detection.detected
    THEN [detected |-> FALSE, descriptor |-> NoDescriptor, livenessScore |-> 0,
          qualityScore |-> 0,
          message |-> "No face detected. Please position your face in the frame."]
    ELSE IF detection.score < MIN_DETECTION_CONFIDENCE
    THEN \* Check detection confidence
         [detected |-> TRUE, descriptor |-> NoDescriptor, livenessScore |-> 0,
          qualityScore |-> detection.score * (QualityScale \div 100),
          message |-> "Face unclear. Please improve lighting and hold still."]
    ELSE IF FaceArea(detection) < MIN_FACE_AREA
    THEN \* Check face size
         [detected |-> TRUE, descriptor |-> NoDescriptor, livenessScore |-> 0,
          qualityScore |-> 3 * (QualityScale \div 10),
          message |-> "Please move closer to the camera."]
    ELSE LET qualityScore == CalculateQualityScore(detection)
             livenessScore == CalculateLivenessScore(detection)
         IN IF 2 * qualityScore < QualityScale
            THEN [detected |-> TRUE, descriptor |-> NoDescriptor,
                  livenessScore |-> livenessScore, qualityScore |-> qualityScore,
                  message |-> "Please face the camera directly and hold still."]
            ELSE IF livenessScore < MIN_LIVENESS_SCORE
            THEN [detected |-> TRUE, descriptor |-> NoDescriptor,
                  livenessScore |-> livenessScore, qualityScore |-> qualityScore,
                  message |-> "Please keep your eyes open and look at the camera."]
            ELSE [detected |-> TRUE, descriptor |-> detection.descriptor,
                  livenessScore |-> livenessScore, qualityScore |-> qualityScore,
                  message |-> "Face verified successfully!"]


\* ---------------------------------------------------- findMatchingEmployee
\* A stored face_encoding is a JSON object: its entries in the order
\* Object.keys iterates them. Keys are the decimal strings of the indices.
RosterIds == {"E1", "E2", "E3"}

\* face_encoding: null (an enrolled encoding always has entries)
NullEncoding == <<>>

\* parseInt of a key
ParseInt(key) == CHOOSE n \in 0..15 : ToString(n) = key

\* descriptorToObject: forEach((value, index) => obj[index.toString()] = value)
DescriptorToObject(descriptor) ==
    [i \in 1..Len(descriptor) |->
        [key |-> ToString(i - 1), value |-> descriptor[i]]]

\* the object as it is read back from storage, its keys iterating in `order`
Stored(obj, order) == [i \in 1..Len(obj) |-> obj[order[i]]]

ObjectKeys(obj) == [i \in 1..Len(obj) |-> obj[i].key]

\* obj[key]
Get(obj, key) == obj[CHOOSE i \in 1..Len(obj) : obj[i].key = key].value

\* mutant: the keys are used in iteration order
SortKeys_Unsorted(keys) == keys

\* keys.sort((a, b) => parseInt(a) - parseInt(b))
RECURSIVE SortKeys(_)
SortKeys(keys) ==
    IF keys = <<>> THEN <<>>
    ELSE LET sorted == SortKeys(SubSeq(keys, 1, Len(keys) - 1))
             k == keys[Len(keys)]
             pos == Cardinality({i \in 1..Len(sorted) :
                                   ParseInt(sorted[i]) <= ParseInt(k)})
         IN SubSeq(sorted, 1, pos) \o <<k>> \o SubSeq(sorted, pos + 1, Len(sorted))

\* new Float32Array(Object.keys(enc).sort(...).map(key => enc[key]))
StoredDescriptor(face_encoding) ==
    LET keys == SortKeys(ObjectKeys(face_encoding))
    IN [i \in 1..Len(keys) |-> Get(face_encoding, keys[i])]

\* Math.sqrt on the sums of squares the inputs produce, which are squares
Sqrt(n) == CHOOSE r \in 0..1000 : r * r = n

RECURSIVE SumSquares(_, _)
SumSquares(a, b) ==
    IF a = <<>> THEN 0
    ELSE (a[1] - b[1]) * (a[1] - b[1]) + SumSquares(Tail(a), Tail(b))

\* compareFaceDescriptors: faceapi.euclideanDistance, in thousandths
CompareFaceDescriptors(descriptor1, descriptor2) ==
    Sqrt(SumSquares(descriptor1, descriptor2))

\* confidence values are numerators over ConfidenceScale
ConfidenceScale == 2 * MATCH_THRESHOLD

NoMatch == [found |-> FALSE]

\* mutant: a distance equal to the threshold is accepted
MatchStep_Inclusive(state, employee, captured) ==
    IF employee.face_encoding = NullEncoding THEN state
    ELSE LET dist == CompareFaceDescriptors(captured,
                         StoredDescriptor(employee.face_encoding))
             best == state.bestMatch
         IN IF dist <= MATCH_THRESHOLD
            THEN IF ~best.found \/ dist < best.distance
                 THEN [bestMatch |->
                          [found |-> TRUE, employeeId |-> employee.id,
                           distance |-> dist,
                           confidence |-> Max(0, 2 * (MATCH_THRESHOLD - dist))],
                       secondBestDistance |->
                          IF best.found THEN best.distance
                          ELSE state.secondBestDistance]
                 ELSE IF dist < state.secondBestDistance
                 THEN [state EXCEPT !.secondBestDistance = dist]
                 ELSE state
            ELSE state

\* mutant: on equal distances the later employee replaces the earlier one
MatchStep_LaterOnTie(state, employee, captured) ==
    IF employee.face_encoding = NullEncoding THEN state
    ELSE LET dist == CompareFaceDescriptors(captured,
                         StoredDescriptor(employee.face_encoding))
             best == state.bestMatch
         IN IF dist < MATCH_THRESHOLD
            THEN IF ~best.found \/ dist <= best.distance
                 THEN [bestMatch |->
                          [found |-> TRUE, employeeId |-> employee.id,
                           distance |-> dist,
                           confidence |-> Max(0, 2 * (MATCH_THRESHOLD - dist))],
                       secondBestDistance |->
                          IF best.found THEN best.distance
                          ELSE state.secondBestDistance]
                 ELSE IF dist < state.secondBestDistance
                 THEN [state EXCEPT !.secondBestDistance = dist]
                 ELSE state
            ELSE state

\* mutant: a candidate that is not the best never updates the second best
MatchStep_NoSecondUpdate(state, employee, captured) ==
    IF employee.face_encoding = NullEncoding THEN state
    ELSE LET dist == CompareFaceDescriptors(captured,
                         StoredDescriptor(employee.face_encoding))
             best == state.bestMatch
         IN IF dist < MATCH_THRESHOLD /\ (~best.found \/ dist < best.distance)
            THEN [bestMatch |->
                     [found |-> TRUE, employeeId |-> employee.id,
                      distance |-> dist,
                      confidence |-> Max(0, 2 * (MATCH_THRESHOLD - dist))],
                  secondBestDistance |->
                     IF best.found THEN best.distance
                     ELSE state.secondBestDistance]
            ELSE state

\* one iteration of `for (const employee of employees)`
MatchStep(state, employee, captured) ==
    IF employee.face_encoding = NullEncoding THEN state
    ELSE LET dist == CompareFaceDescriptors(captured,
                         StoredDescriptor(employee.face_encoding))
             best == state.bestMatch
         IN IF dist < MATCH_THRESHOLD
            THEN IF ~best.found \/ dist < best.distance
                 THEN \* Math.max(0, (MATCH_THRESHOLD - dist) / MATCH_THRESHOLD)
                      [bestMatch |->
                          [found |-> TRUE, employeeId |-> employee.id,
                           distance |-> dist,
                           confidence |-> Max(0, 2 * (MATCH_THRESHOLD - dist))],
                       secondBestDistance |->
                          IF best.found THEN best.distance
                          ELSE state.secondBestDistance]
                 ELSE IF dist < state.secondBestDistance
                 THEN [state EXCEPT !.secondBestDistance = dist]
                 ELSE state
            ELSE state

\* the loop: bestMatch and secondBestDistance after the last employee
RECURSIVE MatchLoop(_, _)
MatchLoop(captured, employeeList) ==
    IF employeeList = <<>>
    THEN [bestMatch |-> NoMatch, secondBestDistance |-> Infinity]
    ELSE MatchStep(MatchLoop(captured,
                             SubSeq(employeeList, 1, Len(employeeList) - 1)),
                   employeeList[Len(employeeList)], captured)

\* mutant: the ambiguity penalty is never applied
FindMatchingEmployee_NoHalving(captured, employeeList) ==
    MatchLoop(captured, employeeList).bestMatch

\* findMatchingEmployee: null is NoMatch
FindMatchingEmployee(captured, employeeList) ==
    LET final == MatchLoop(captured, employeeList)
        bestMatch == final.bestMatch
    IN IF bestMatch.found /\ final.secondBestDistance < Infinity
       THEN LET margin == final.secondBestDistance - bestMatch.distance
            IN IF margin < 100
               THEN [bestMatch EXCEPT !.confidence = bestMatch.confidence \div 2]
               ELSE bestMatch
       ELSE bestMatch


\* ------------------------------------------------------ ClockInOut screen
Msg(text) == [text |-> text, who |-> NULL, streak |-> 0]

\* the detections the camera frames of a session produce: one for each
\* return statement of detectFace
SessionDetections ==
    { NoDetection,
      [detected |-> TRUE, score |-> 40, box |-> [width |-> 200, height |-> 200],
       eyeAngle |-> 5, horizontalOffset |-> 10, eyeDistance |-> 60,
       leftEyeOpenness |-> 30, rightEyeOpenness |-> 30, mouthOpenness |-> 20,
       descriptor |-> <<0, 0>>],
      [detected |-> TRUE, score |-> 90, box |-> [width |-> 99, height |-> 101],
       eyeAngle |-> 5, horizontalOffset |-> 10, eyeDistance |-> 60,
       leftEyeOpenness |-> 30, rightEyeOpenness |-> 30, mouthOpenness |-> 20,
       descriptor |-> <<0, 0>>],
      [detected |-> TRUE, score |-> 60, box |-> [width |-> 100, height |-> 100],
       eyeAngle |-> 5, horizontalOffset |-> 10, eyeDistance |-> 60,
       leftEyeOpenness |-> 30, rightEyeOpenness |-> 30, mouthOpenness |-> 20,
       descriptor |-> <<0, 0>>],
      [detected |-> TRUE, score |-> 75, box |-> [width |-> 200, height |-> 200],
       eyeAngle |-> 5, horizontalOffset |-> 10, eyeDistance |-> 60,
       leftEyeOpenness |-> 12, rightEyeOpenness |-> 30, mouthOpenness |-> 20,
       descriptor |-> <<0, 0>>],
      [detected |-> TRUE, score |-> 90, box |-> [width |-> 200, height |-> 200],
       eyeAngle |-> 5, horizontalOffset |-> 10, eyeDistance |-> 60,
       leftEyeOpenness |-> 30, rightEyeOpenness |-> 30, mouthOpenness |-> 20,
       descriptor |-> <<0, 0>>],
      \* on the limits: confidence 0.5, area 10000, liveness 0.4
      [detected |-> TRUE, score |-> 50, box |-> [width |-> 250, height |-> 250],
       eyeAngle |-> 20, horizontalOffset |-> 18, eyeDistance |-> 60,
       leftEyeOpenness |-> 30, rightEyeOpenness |-> 30, mouthOpenness |-> 20,
       descriptor |-> <<0, 0>>],
      [detected |-> TRUE, score |-> 100, box |-> [width |-> 100, height |-> 100],
       eyeAngle |-> 5, horizontalOffset |-> 10, eyeDistance |-> 60,
       leftEyeOpenness |-> 19, rightEyeOpenness |-> 30, mouthOpenness |-> 51,
       descriptor |-> <<0, 0>>],
      \* low confidence on a small face
      [detected |-> TRUE, score |-> 49, box |-> [width |-> 99, height |-> 101],
       eyeAngle |-> 21, horizontalOffset |-> 19, eyeDistance |-> 60,
       leftEyeOpenness |-> 12, rightEyeOpenness |-> 30, mouthOpenness |-> 51,
       descriptor |-> <<0, 0>>] }

\* rosters getEmployeesByBusiness can return
Rosters == {{}, EmployeeIds}

\* the descriptor each employee of a session was enrolled with
SessionEnrolled(id) == IF id = "E1" THEN <<0, 0>> ELSE <<0, 400>>

\* the Employee rows of the ids, in the order the roster query returns
SessionRoster(ids) ==
    LET rows == <<"E1", "E2">>
        present == SelectSeq(rows, LAMBDA id : id \in ids)
    IN [i \in 1..Len(present) |->
           [id |-> present[i], enrolled |-> SessionEnrolled(present[i]),
            face_encoding |->
               Stored(DescriptorToObject(SessionEnrolled(present[i])), <<1, 2>>)]]

\* descriptors of the faces in front of the camera: E1 exactly as enrolled,
\* E2 at distance 0.03 from the enrolled descriptor, a stranger
SessionDescriptors == {<<0, 0>>, <<0, 430>>, <<0, 1000>>}

\* findMatchingEmployee(result.descriptor, currentEmployees) for the faces
\* and rosters of a session, as a table (merging with the empty function
\* makes TLC compute the table once)
SessionMatch ==
    [ids \in SUBSET EmployeeIds, q \in SessionDescriptors |->
        FindMatchingEmployee(q, SessionRoster(ids))] @@ <<>>

\* the frames of a clock-in session: every detection, and every accepted
\* detection with each of the faces
SessionFrames ==
    SessionDetections \cup
    {[d EXCEPT !.descriptor = q] :
        d \in {x \in SessionDetections \ {NoDetection} :
                  DetectFace(x).descriptor # NoDescriptor},
        q \in SessionDescriptors}

\* the state as the component is constructed (first render done)
SessionIdle ==
    /\ status = "loading"
    /\ message = Msg("Loading face detection...")
    /\ matchedEmployee = NULL
    /\ matchStreak = 0
    /\ hasActiveEntry = FALSE
    /\ employees = {}
    /\ employeesRef = {}
    /\ intervalRef = FALSE
    /\ cleanupRegistered = FALSE
    /\ effectDeps = <<"loading", NULL>>
    /\ mounted = TRUE
    /\ inflight = {}
    /\ frameSeq = 0
    /\ fed = <<>>
    /\ recaptures = 0
    /\ lastCycle = NoCycle
    /\ component = "ClockInOut"
    /\ capturedDescriptor = NoDescriptor
    /\ existingEmployee = NULL

Init ==
    /\ requiredMatches = REQUIRED_CONSECUTIVE_MATCHES
    /\ matches = <<>>
    /\ lastResult = NoResult
    /\ prevMatches = <<>>
    /\ events = <<>>
    /\ SessionIdle
    /\ call = NoCall
    /\ returned = NotReturned
    /\ onSuccessTimers = <<>>
    /\ LoaderIdle

\* a state setter: React drops updates of an unmounted component
SetState(new, old) == IF mounted THEN new ELSE old

\* clearInterval: the callbacks still suspended belong to a stopped interval
MarkStopped(cycles) == {[c EXCEPT !.stopped = TRUE] : c \in cycles}

\* init() resolves: models loaded, camera started, roster fetched
InitDone ==
    /\ component = "ClockInOut"
    /\ mounted /\ status = "loading"
    /\ \E emps \in Rosters : employees' = emps
    /\ status' = "ready"
    /\ message' = Msg("Position your face in the frame")
    /\ UNCHANGED <<trackerVars, matchedEmployee, matchStreak, hasActiveEntry,
                   employeesRef, intervalRef, cleanupRegistered, effectDeps,
                   mounted, inflight, frameSeq, fed, recaptures>>
    /\ UNCHANGED <<lastCycle, component, signUpVars, callVars, authVars, loaderVars>>

\* init() throws
InitFail ==
    /\ component = "ClockInOut"
    /\ mounted /\ status = "loading"
    /\ status' = "error"
    /\ message' = Msg("Failed to initialize. Please refresh and try again.")
    /\ UNCHANGED <<trackerVars, matchedEmployee, matchStreak, hasActiveEntry,
                   employees, employeesRef, intervalRef, cleanupRegistered,
                   effectDeps, mounted, inflight, frameSeq, fed, recaptures>>
    /\ UNCHANGED <<lastCycle, component, signUpVars, callVars, authVars, loaderVars>>

\* React commits a render and runs the effects whose dependencies changed:
\* the employeesRef sync and the detection effect (cleanup, then body).
\* When the body itself calls setStatus('detecting') the render it causes
\* follows at once, before the interval just created can fire (500 ms), so
\* that second run of the effect is part of this step.
Render ==
    /\ component = "ClockInOut"
    /\ mounted
    /\ (<<status, matchedEmployee>> # effectDeps \/ employeesRef # employees)
    /\ employeesRef' = employees
    /\ IF <<status, matchedEmployee>> = effectDeps
       THEN UNCHANGED <<trackerVars, status, message, intervalRef,
                        cleanupRegistered, effectDeps, inflight>>
       ELSE LET \* first run: cleanup of the previous run, then the body
                cleared == cleanupRegistered /\ intervalRef
                refAfterCleanup == IF cleanupRegistered THEN FALSE ELSE intervalRef
                runs == status \in {"ready", "detecting"} /\ matchedEmployee = NULL
                toDetecting == runs /\ status = "ready"
                creates == runs /\ ~refAfterCleanup
                ref1 == creates \/ refAfterCleanup
                \* second run, for [detecting, null]: cleanup, then the body
                refAfterCleanup2 == IF creates THEN FALSE ELSE ref1
                creates2 == ~refAfterCleanup2
            IN /\ effectDeps' = IF toDetecting THEN <<"detecting", matchedEmployee>>
                                ELSE <<status, matchedEmployee>>
               /\ status' = IF toDetecting THEN "detecting" ELSE status
               /\ message' = IF toDetecting THEN Msg("Looking for your face...")
                             ELSE message
               /\ IF toDetecting
                  THEN /\ matches' = Reset(matches)
                       /\ prevMatches' = matches
                       /\ events' = Append(events, ResetEvent)
                  ELSE UNCHANGED <<matches, prevMatches, events>>
               /\ intervalRef' = IF toDetecting THEN creates2 \/ refAfterCleanup2
                                 ELSE ref1
               /\ cleanupRegistered' = IF toDetecting THEN creates2 ELSE creates
               /\ inflight' = IF cleared THEN MarkStopped(inflight) ELSE inflight
               /\ UNCHANGED <<requiredMatches, lastResult>>
    /\ UNCHANGED <<matchedEmployee, matchStreak, hasActiveEntry, employees,
                   mounted, frameSeq, fed, recaptures>>
    /\ UNCHANGED <<lastCycle, component, signUpVars, callVars, authVars, loaderVars>>

\* the interval fires: the callback runs up to `await detectFace(...)`
Tick ==
    /\ component = "ClockInOut"
    /\ intervalRef
    /\ IF employeesRef = {}
       THEN /\ message' = SetState(Msg("Loading employees..."), message)
            /\ UNCHANGED <<inflight, frameSeq>>
       ELSE /\ frameSeq < MaxFrames
            /\ frameSeq' = frameSeq + 1
            /\ inflight' = inflight \cup
                 {[frame |-> frameSeq + 1, phase |-> "detectFace",
                   currentEmployees |-> employeesRef, employee |-> NULL,
                   stopped |-> FALSE, fedBefore |-> Len(fed)]}
            /\ UNCHANGED message
    /\ UNCHANGED <<trackerVars, status, matchedEmployee, matchStreak,
                   hasActiveEntry, employees, employeesRef, intervalRef,
                   cleanupRegistered, effectDeps, mounted, fed, recaptures>>
    /\ UNCHANGED <<lastCycle, component, signUpVars, callVars, authVars, loaderVars>>

\* mutant: a rejected frame stops the polling and ends the session in error
CycleRejected_StopsPolling(c, result) ==
    LET trackResult == AddMatch(matches, requiredMatches, NULL)
    IN /\ matches' = trackResult.matches
       /\ lastResult' = trackResult.result
       /\ events' = Append(events, AddEvent(NULL))
       /\ matchStreak' = SetState(0, matchStreak)
       /\ message' = SetState(Msg(result.message), message)
       /\ inflight' = MarkStopped(inflight \ {c})
       /\ intervalRef' = FALSE
       /\ status' = SetState("error", status)
       /\ UNCHANGED <<matchedEmployee, employees, employeesRef>>

\* the frame did not pass detectFace: "Reset streak if face lost"
CycleRejected(c, result) ==
    LET trackResult == AddMatch(matches, requiredMatches, NULL)
    IN /\ matches' = trackResult.matches
       /\ lastResult' = trackResult.result
       /\ events' = Append(events, AddEvent(NULL))
       /\ matchStreak' = SetState(0, matchStreak)
       /\ message' = SetState(Msg(result.message), message)
       /\ inflight' = inflight \ {c}
       /\ UNCHANGED <<matchedEmployee, status, intervalRef,
                      employees, employeesRef>>

\* findMatchingEmployee returned null: "No match - reset tracker"
CycleNoMatch(c) ==
    LET trackResult == AddMatch(matches, requiredMatches, NULL)
    IN /\ matches' = trackResult.matches
       /\ lastResult' = trackResult.result
       /\ events' = Append(events, AddEvent(NULL))
       /\ matchStreak' = SetState(0, matchStreak)
       /\ message' = SetState(
            Msg("Face not recognized. Please sign up first."), message)
       /\ inflight' = inflight \ {c}
       /\ UNCHANGED <<matchedEmployee, status, intervalRef,
                      employees, employeesRef>>

\* findMatchingEmployee returned the employee `match`
CycleMatched(c, match) ==
    LET trackResult == AddMatch(matches, requiredMatches, match)
    IN /\ matches' = trackResult.matches
       /\ lastResult' = trackResult.result
       /\ events' = Append(events, AddEvent(match))
       /\ matchStreak' = SetState(trackResult.result.streak, matchStreak)
       /\ IF trackResult.result.confirmed
          THEN /\ matchedEmployee' = SetState(match, matchedEmployee)
               /\ status' = SetState("verified", status)
               /\ message' = SetState(
                    [text |-> "Welcome", who |-> match, streak |-> 0], message)
               /\ inflight' = (inflight \ {c}) \cup
                    {[c EXCEPT !.phase = "getActiveTimeEntry",
                               !.employee = match]}
          ELSE /\ message' = SetState(
                    [text |-> "Verifying", who |-> match,
                     streak |-> trackResult.result.streak], message)
               /\ inflight' = inflight \ {c}
               /\ UNCHANGED <<matchedEmployee, status>>
       /\ UNCHANGED <<intervalRef, employees, employeesRef>>

\* detectFace resolves and the callback continues: match, track, report
DetectResolved ==
    \E c \in inflight, detection \in SessionFrames :
      LET result == DetectFace(detection)
      IN /\ component = "ClockInOut"
         /\ c.phase = "detectFace"
         /\ fed' = Append(fed, c.frame)
         /\ prevMatches' = matches
         /\ IF /\ result.detected
               /\ result.descriptor # NoDescriptor
               /\ result.livenessScore >= MIN_LIVENESS_SCORE
            THEN LET match == SessionMatch[c.currentEmployees,
                                            result.descriptor]
                 IN /\ lastCycle' =
                         [frame |-> c.frame, detection |-> detection,
                          result |-> result, matcherCalled |-> TRUE,
                          match |-> IF match.found THEN match.employeeId
                                    ELSE NULL,
                          confidence |-> IF match.found THEN match.confidence
                                         ELSE 0,
                          currentEmployees |-> c.currentEmployees]
                    /\ IF match.found
                       THEN CycleMatched(c, match.employeeId)
                       ELSE CycleNoMatch(c)
            ELSE /\ lastCycle' = [frame |-> c.frame, detection |-> detection,
                                  result |-> result, matcherCalled |-> FALSE,
                                  match |-> NULL, confidence |-> 0,
                                  currentEmployees |-> c.currentEmployees]
                 /\ CycleRejected(c, result)
         /\ UNCHANGED <<requiredMatches, hasActiveEntry,
                        cleanupRegistered, effectDeps, mounted,
                        frameSeq, recaptures, component, signUpVars, callVars, authVars, loaderVars>>

\* getActiveTimeEntry resolves in the confirmed branch: "Stop detection"
ActiveEntryResolved ==
    \E c \in inflight, activeEntry \in BOOLEAN :
      /\ component = "ClockInOut"
      /\ c.phase = "getActiveTimeEntry"
      /\ hasActiveEntry' = SetState(activeEntry, hasActiveEntry)
      /\ intervalRef' = FALSE
      /\ inflight' = IF intervalRef THEN MarkStopped(inflight \ {c})
                     ELSE inflight \ {c}
      /\ UNCHANGED <<trackerVars, status, message, matchedEmployee, matchStreak,
                     employees, employeesRef, cleanupRegistered, effectDeps,
                     mounted, frameSeq, fed, recaptures>>
      /\ UNCHANGED <<lastCycle, component, signUpVars, callVars, authVars, loaderVars>>

\* the "Not you? Re-capture" button, shown while an employee is matched
HandleRecapture ==
    /\ component = "ClockInOut"
    /\ mounted /\ matchedEmployee # NULL
    \* the button exists once the render with the matched employee is done
    /\ effectDeps = <<status, matchedEmployee>>
    /\ recaptures < MaxRecaptures
    /\ recaptures' = recaptures + 1
    /\ matchedEmployee' = NULL
    /\ hasActiveEntry' = FALSE
    /\ matchStreak' = 0
    /\ matches' = Reset(matches)
    /\ prevMatches' = matches
    /\ events' = Append(events, ResetEvent)
    /\ message' = Msg("Position your face in the frame")
    /\ status' = "ready"
    /\ UNCHANGED <<requiredMatches, lastResult, employees, employeesRef,
                   intervalRef, cleanupRegistered, effectDeps, mounted,
                   inflight, frameSeq, fed>>
    /\ UNCHANGED <<lastCycle, component, signUpVars, callVars, authVars, loaderVars>>

\* the component unmounts: the detection effect's cleanup and stopCamera run
Unmount ==
    /\ component = "ClockInOut"
    /\ mounted
    /\ mounted' = FALSE
    /\ intervalRef' = FALSE
    /\ cleanupRegistered' = FALSE
    /\ inflight' = IF intervalRef THEN MarkStopped(inflight) ELSE inflight
    /\ UNCHANGED <<trackerVars, status, message, matchedEmployee, matchStreak,
                   hasActiveEntry, employees, employeesRef, effectDeps,
                   frameSeq, fed, recaptures>>
    /\ UNCHANGED <<lastCycle, component, signUpVars, callVars, authVars, loaderVars>>

Next ==
    \/ InitDone
    \/ InitFail
    \/ Render
    \/ Tick
    \/ DetectResolved
    \/ ActiveEntryResolved
    \/ HandleRecapture
    \/ Unmount

Spec == Init /\ [][Next]_vars

\* -------------------------------------------------- SignUpEmployee screen
\* The enrolment screen polls with the same detectFace and matcher but keeps
\* no ConsecutiveMatchTracker. effectDeps holds [status, employees,
\* capturedDescriptor] of the last run of the detection effect, which are
\* the values the interval callback created by that run closes over.
SignUpInit ==
    /\ requiredMatches = REQUIRED_CONSECUTIVE_MATCHES
    /\ matches = <<>>
    /\ lastResult = NoResult
    /\ prevMatches = <<>>
    /\ events = <<>>
    /\ status = "loading"
    /\ message = Msg("Loading face detection...")
    /\ matchedEmployee = NULL
    /\ matchStreak = 0
    /\ hasActiveEntry = FALSE
    /\ employees = {}
    /\ employeesRef = {}
    /\ intervalRef = FALSE
    /\ cleanupRegistered = FALSE
    /\ effectDeps = <<"loading", {}, NoDescriptor>>
    /\ mounted = TRUE
    /\ inflight = {}
    /\ frameSeq = 0
    /\ fed = <<>>
    /\ recaptures = 0
    /\ lastCycle = NoCycle
    /\ component = "SignUpEmployee"
    /\ capturedDescriptor = NoDescriptor
    /\ existingEmployee = NULL
    /\ call = NoCall
    /\ returned = NotReturned
    /\ onSuccessTimers = <<>>
    /\ LoaderIdle

\* what no action of the enrolment screen touches
signUpFrozen == <<trackerVars, matchedEmployee, matchStreak, hasActiveEntry,
                  employeesRef, fed, component, callVars, authVars, loaderVars>>

\* init() resolves: models loaded, roster fetched, camera started
SignUpInitDone ==
    /\ component = "SignUpEmployee"
    /\ mounted /\ status = "loading"
    /\ \E emps \in Rosters : employees' = emps
    /\ status' = "capturing"
    /\ message' = Msg("Position your face in the frame")
    /\ UNCHANGED <<intervalRef, cleanupRegistered, effectDeps, mounted,
                   inflight, frameSeq, recaptures, lastCycle, signUpVars>>
    /\ UNCHANGED signUpFrozen

\* init() throws
SignUpInitFail ==
    /\ component = "SignUpEmployee"
    /\ mounted /\ status = "loading"
    /\ status' = "error"
    /\ message' = Msg("Failed to initialize. Please refresh and try again.")
    /\ UNCHANGED <<employees, intervalRef, cleanupRegistered, effectDeps,
                   mounted, inflight, frameSeq, recaptures, lastCycle,
                   signUpVars>>
    /\ UNCHANGED signUpFrozen

\* React commits a render and runs the detection effect: the cleanup of its
\* previous run, then its body
SignUpRender ==
    /\ component = "SignUpEmployee"
    /\ mounted
    /\ <<status, employees, capturedDescriptor>> # effectDeps
    /\ effectDeps' = <<status, employees, capturedDescriptor>>
    /\ LET cleared == cleanupRegistered /\ intervalRef
           creates == status = "capturing"
       IN /\ intervalRef' = (creates \/ (~cleanupRegistered /\ intervalRef))
          /\ cleanupRegistered' = creates
          /\ inflight' = IF cleared THEN MarkStopped(inflight) ELSE inflight
    /\ UNCHANGED <<status, message, employees, mounted, frameSeq, recaptures,
                   lastCycle, signUpVars>>
    /\ UNCHANGED signUpFrozen

\* the interval fires: the callback runs up to `await detectFace(...)`;
\* with a captured descriptor in its closure it returns at once
SignUpTick ==
    /\ component = "SignUpEmployee"
    /\ intervalRef
    /\ effectDeps[3] = NoDescriptor
    /\ frameSeq < MaxFrames
    /\ frameSeq' = frameSeq + 1
    /\ inflight' = inflight \cup
         {[frame |-> frameSeq + 1, phase |-> "detectFace",
           currentEmployees |-> effectDeps[2], employee |-> NULL,
           stopped |-> FALSE, fedBefore |-> Len(fed)]}
    /\ UNCHANGED <<status, message, employees, intervalRef, cleanupRegistered,
                   effectDeps, mounted, recaptures, lastCycle, signUpVars>>
    /\ UNCHANGED signUpFrozen

\* detectFace resolves and the callback continues
SignUpDetectResolved ==
    \E c \in inflight, detection \in SessionDetections :
      LET result == DetectFace(detection)
      IN /\ component = "SignUpEmployee"
         /\ c.phase = "detectFace"
         /\ IF /\ result.detected
               /\ result.descriptor # NoDescriptor
               /\ 2 * result.livenessScore >= LivenessScale
            THEN \E match \in c.currentEmployees \cup {NULL},
                    imageData \in BOOLEAN :
                   /\ lastCycle' = [frame |-> c.frame, detection |-> detection,
                                    result |-> result, matcherCalled |-> TRUE,
                                    match |-> match]
                   /\ IF match # NULL
                      THEN \* "Check if face already exists"
                           /\ existingEmployee' = SetState(match, existingEmployee)
                           /\ status' = SetState("error", status)
                           /\ message' = SetState(
                                [text |-> "Face already registered to",
                                 who |-> match, streak |-> 0], message)
                           /\ intervalRef' = FALSE
                           /\ inflight' = IF intervalRef
                                          THEN MarkStopped(inflight \ {c})
                                          ELSE inflight \ {c}
                           /\ UNCHANGED capturedDescriptor
                      ELSE IF imageData
                      THEN \* "capture image and go to confirmation"
                           /\ capturedDescriptor' =
                                SetState(result.descriptor, capturedDescriptor)
                           /\ status' = SetState("confirming", status)
                           /\ message' = SetState(
                                Msg("Is this you? Please confirm."), message)
                           /\ intervalRef' = FALSE
                           /\ inflight' = IF intervalRef
                                          THEN MarkStopped(inflight \ {c})
                                          ELSE inflight \ {c}
                           /\ UNCHANGED existingEmployee
                      ELSE /\ inflight' = inflight \ {c}
                           /\ UNCHANGED <<status, message, intervalRef,
                                          signUpVars>>
            ELSE /\ lastCycle' = [frame |-> c.frame, detection |-> detection,
                                  result |-> result, matcherCalled |-> FALSE,
                                  match |-> NULL]
                 /\ message' = SetState(Msg(result.message), message)
                 /\ inflight' = inflight \ {c}
                 /\ UNCHANGED <<status, intervalRef, signUpVars>>
         /\ UNCHANGED <<employees, cleanupRegistered, effectDeps, mounted,
                        frameSeq, recaptures>>
         /\ UNCHANGED signUpFrozen

\* "Retry" on the confirmation view: startCamera resolves or throws
SignUpHandleRetry ==
    /\ component = "SignUpEmployee"
    /\ mounted /\ status = "confirming" /\ capturedDescriptor # NoDescriptor
    /\ recaptures < MaxRecaptures
    /\ recaptures' = recaptures + 1
    /\ capturedDescriptor' = NoDescriptor
    /\ existingEmployee' = NULL
    /\ \E started \in BOOLEAN :
         IF started
         THEN /\ status' = "capturing"
              /\ message' = Msg("Position your face in the frame")
         ELSE /\ status' = "error"
              /\ message' = Msg("Failed to restart camera. Please refresh.")
    /\ UNCHANGED <<employees, intervalRef, cleanupRegistered, effectDeps,
                   mounted, inflight, frameSeq, lastCycle>>
    /\ UNCHANGED signUpFrozen

\* "Re-capture", shown while existingEmployee is set: stopCamera, then
\* startCamera resolves or throws
SignUpHandleRecapture ==
    /\ component = "SignUpEmployee"
    /\ mounted /\ existingEmployee # NULL
    /\ recaptures < MaxRecaptures
    /\ recaptures' = recaptures + 1
    /\ capturedDescriptor' = NoDescriptor
    /\ existingEmployee' = NULL
    /\ intervalRef' = FALSE
    /\ inflight' = IF intervalRef THEN MarkStopped(inflight) ELSE inflight
    /\ \E started \in BOOLEAN :
         IF started
         THEN /\ status' = "capturing"
              /\ message' = Msg("Position your face in the frame")
         ELSE /\ status' = "error"
              /\ message' = Msg("Failed to restart camera. Please refresh.")
    /\ UNCHANGED <<employees, cleanupRegistered, effectDeps, mounted,
                   frameSeq, lastCycle>>
    /\ UNCHANGED signUpFrozen

\* the component unmounts: stopCamera and the detection effect's cleanup run
SignUpUnmount ==
    /\ component = "SignUpEmployee"
    /\ mounted
    /\ mounted' = FALSE
    /\ intervalRef' = FALSE
    /\ cleanupRegistered' = FALSE
    /\ inflight' = IF intervalRef THEN MarkStopped(inflight) ELSE inflight
    /\ UNCHANGED <<status, message, employees, effectDeps, frameSeq,
                   recaptures, lastCycle, signUpVars>>
    /\ UNCHANGED signUpFrozen

SignUpNext ==
    \/ SignUpInitDone
    \/ SignUpInitFail
    \/ SignUpRender
    \/ SignUpTick
    \/ SignUpDetectResolved
    \/ SignUpHandleRetry
    \/ SignUpHandleRecapture
    \/ SignUpUnmount

\* ---------------------------------------------------- FaceAuth screen
\* The portal's sign-in screen: the same polling loop and tracker as
\* ClockInOut, but a confirmation clears the interval at once and schedules
\* onSuccess. effectDeps holds [status] of the detection effect's last run.
AuthInit ==
    /\ requiredMatches = REQUIRED_CONSECUTIVE_MATCHES
    /\ matches = <<>>
    /\ lastResult = NoResult
    /\ prevMatches = <<>>
    /\ events = <<>>
    /\ status = "loading"
    /\ message = Msg("Loading...")
    /\ matchedEmployee = NULL
    /\ matchStreak = 0
    /\ hasActiveEntry = FALSE
    /\ employees = {}
    /\ employeesRef = {}
    /\ intervalRef = FALSE
    /\ cleanupRegistered = FALSE
    /\ effectDeps = <<"loading">>
    /\ mounted = TRUE
    /\ inflight = {}
    /\ frameSeq = 0
    /\ fed = <<>>
    /\ recaptures = 0
    /\ lastCycle = NoCycle
    /\ component = "FaceAuth"
    /\ capturedDescriptor = NoDescriptor
    /\ existingEmployee = NULL
    /\ call = NoCall
    /\ returned = NotReturned
    /\ onSuccessTimers = <<>>
    /\ LoaderIdle

\* what no action of the sign-in screen touches
authFrozen == <<requiredMatches, matchedEmployee, hasActiveEntry, recaptures,
                component, signUpVars, callVars, loaderVars>>

\* init() resolves: camera started, models loaded, roster fetched
AuthInitDone ==
    /\ component = "FaceAuth"
    /\ mounted /\ status = "loading"
    /\ \E emps \in Rosters :
         /\ employees' = emps
         /\ IF emps = {}
            THEN /\ status' = "error"
                 /\ message' = Msg("No employees registered for this business.")
            ELSE /\ status' = "ready"
                 /\ message' = Msg("Position your face to authenticate")
    /\ UNCHANGED <<matches, lastResult, prevMatches, events, matchStreak,
                   employeesRef, intervalRef, cleanupRegistered, effectDeps,
                   mounted, inflight, frameSeq, fed, lastCycle, authVars>>
    /\ UNCHANGED authFrozen

\* init() throws
AuthInitFail ==
    /\ component = "FaceAuth"
    /\ mounted /\ status = "loading"
    /\ status' = "error"
    /\ message' = Msg("Failed to initialize. Please refresh.")
    /\ UNCHANGED <<matches, lastResult, prevMatches, events, matchStreak,
                   employees, employeesRef, intervalRef, cleanupRegistered,
                   effectDeps, mounted, inflight, frameSeq, fed, lastCycle,
                   authVars>>
    /\ UNCHANGED authFrozen

\* React commits a render: the employeesRef sync, and for a new status the
\* detection effect (the cleanup of its previous run, then its body)
AuthRender ==
    /\ component = "FaceAuth"
    /\ mounted
    /\ (<<status>> # effectDeps \/ employeesRef # employees)
    /\ employeesRef' = employees
    /\ IF <<status>> = effectDeps
       THEN UNCHANGED <<intervalRef, cleanupRegistered, effectDeps, inflight>>
       ELSE LET cleared == cleanupRegistered /\ intervalRef
                refAfterCleanup == IF cleanupRegistered THEN FALSE
                                   ELSE intervalRef
                creates == status = "detecting" /\ ~refAfterCleanup
            IN /\ effectDeps' = <<status>>
               /\ intervalRef' = (creates \/ refAfterCleanup)
               /\ cleanupRegistered' = creates
               /\ inflight' = IF cleared THEN MarkStopped(inflight)
                              ELSE inflight
    /\ UNCHANGED <<matches, lastResult, prevMatches, events, status, message,
                   matchStreak, employees, mounted, frameSeq, fed, lastCycle,
                   authVars>>
    /\ UNCHANGED authFrozen

\* the setTimeout(..., 0) of the 'ready' effect fires
AuthReadyTimer ==
    /\ component = "FaceAuth"
    /\ mounted /\ status = "ready" /\ effectDeps = <<"ready">>
    /\ status' = "detecting"
    /\ message' = Msg("Looking for your face...")
    /\ matches' = Reset(matches)
    /\ prevMatches' = matches
    /\ events' = Append(events, ResetEvent)
    /\ UNCHANGED <<lastResult, matchStreak, employees, employeesRef,
                   intervalRef, cleanupRegistered, effectDeps, mounted,
                   inflight, frameSeq, fed, lastCycle, authVars>>
    /\ UNCHANGED authFrozen

\* the interval fires: the callback runs up to `await detectFace(...)`;
\* with an empty roster it returns at once
AuthTick ==
    /\ component = "FaceAuth"
    /\ intervalRef
    /\ employeesRef # {}
    /\ frameSeq < MaxFrames
    /\ frameSeq' = frameSeq + 1
    /\ inflight' = inflight \cup
         {[frame |-> frameSeq + 1, phase |-> "detectFace",
           currentEmployees |-> employeesRef, employee |-> NULL,
           stopped |-> FALSE, fedBefore |-> Len(fed)]}
    /\ UNCHANGED <<matches, lastResult, prevMatches, events, status, message,
                   matchStreak, employees, employeesRef, intervalRef,
                   cleanupRegistered, effectDeps, mounted, fed, lastCycle,
                   authVars>>
    /\ UNCHANGED authFrozen

\* the frame did not pass detectFace
AuthCycleRejected(c, result) ==
    LET trackResult == AddMatch(matches, requiredMatches, NULL)
    IN /\ matches' = trackResult.matches
       /\ lastResult' = trackResult.result
       /\ events' = Append(events, AddEvent(NULL))
       /\ matchStreak' = SetState(0, matchStreak)
       /\ message' = SetState(Msg(result.message), message)
       /\ inflight' = inflight \ {c}
       /\ UNCHANGED <<status, intervalRef, onSuccessTimers,
                      employees, employeesRef>>

\* findMatchingEmployee returned null
AuthCycleNoMatch(c) ==
    LET trackResult == AddMatch(matches, requiredMatches, NULL)
    IN /\ matches' = trackResult.matches
       /\ lastResult' = trackResult.result
       /\ events' = Append(events, AddEvent(NULL))
       /\ matchStreak' = SetState(0, matchStreak)
       /\ message' = SetState(
            Msg("Face not recognized. Please try again."), message)
       /\ inflight' = inflight \ {c}
       /\ UNCHANGED <<status, intervalRef, onSuccessTimers,
                      employees, employeesRef>>

\* mutant: the callback takes the matched employee out of the roster array
AuthCycleMatched_SplicesRoster(c, match) ==
    LET trackResult == AddMatch(matches, requiredMatches, match)
    IN /\ matches' = trackResult.matches
       /\ lastResult' = trackResult.result
       /\ events' = Append(events, AddEvent(match))
       /\ matchStreak' = SetState(trackResult.result.streak, matchStreak)
       /\ IF trackResult.result.confirmed
          THEN /\ status' = SetState("verified", status)
               /\ message' = SetState(
                    [text |-> "Welcome", who |-> match, streak |-> 0], message)
               /\ intervalRef' = FALSE
               /\ inflight' = IF intervalRef THEN MarkStopped(inflight \ {c})
                              ELSE inflight \ {c}
               /\ onSuccessTimers' =
                    Append(onSuccessTimers,
                           [employee |-> match, fired |-> FALSE])
          ELSE /\ message' = SetState(
                    [text |-> "Verifying", who |-> match,
                     streak |-> trackResult.result.streak], message)
               /\ inflight' = inflight \ {c}
               /\ UNCHANGED <<status, intervalRef, onSuccessTimers>>
       /\ employeesRef' = employeesRef \ {match}
       /\ UNCHANGED employees

\* findMatchingEmployee returned the employee `match`: on a confirmation
\* "Stop detection", stop the stream, setTimeout(() => onSuccess(emp), 1000)
AuthCycleMatched(c, match) ==
    LET trackResult == AddMatch(matches, requiredMatches, match)
    IN /\ matches' = trackResult.matches
       /\ lastResult' = trackResult.result
       /\ events' = Append(events, AddEvent(match))
       /\ matchStreak' = SetState(trackResult.result.streak, matchStreak)
       /\ IF trackResult.result.confirmed
          THEN /\ status' = SetState("verified", status)
               /\ message' = SetState(
                    [text |-> "Welcome", who |-> match, streak |-> 0], message)
               /\ intervalRef' = FALSE
               /\ inflight' = IF intervalRef THEN MarkStopped(inflight \ {c})
                              ELSE inflight \ {c}
               /\ onSuccessTimers' =
                    Append(onSuccessTimers,
                           [employee |-> match, fired |-> FALSE])
          ELSE /\ message' = SetState(
                    [text |-> "Verifying", who |-> match,
                     streak |-> trackResult.result.streak], message)
               /\ inflight' = inflight \ {c}
               /\ UNCHANGED <<status, intervalRef, onSuccessTimers>>
       /\ UNCHANGED <<employees, employeesRef>>

\* detectFace resolves and the callback continues: match, track, report
AuthDetectResolved ==
    \E c \in inflight, detection \in SessionFrames :
      LET result == DetectFace(detection)
      IN /\ component = "FaceAuth"
         /\ c.phase = "detectFace"
         /\ fed' = Append(fed, c.frame)
         /\ prevMatches' = matches
         /\ IF /\ result.detected
               /\ result.descriptor # NoDescriptor
               /\ result.livenessScore >= MIN_LIVENESS_SCORE
            THEN LET match == SessionMatch[c.currentEmployees,
                                            result.descriptor]
                 IN /\ lastCycle' =
                         [frame |-> c.frame, detection |-> detection,
                          result |-> result, matcherCalled |-> TRUE,
                          match |-> IF match.found THEN match.employeeId
                                    ELSE NULL,
                          confidence |-> IF match.found THEN match.confidence
                                         ELSE 0,
                          currentEmployees |-> c.currentEmployees]
                    /\ IF match.found
                       THEN AuthCycleMatched(c, match.employeeId)
                       ELSE AuthCycleNoMatch(c)
            ELSE /\ lastCycle' = [frame |-> c.frame, detection |-> detection,
                                  result |-> result, matcherCalled |-> FALSE,
                                  match |-> NULL, confidence |-> 0,
                                  currentEmployees |-> c.currentEmployees]
                 /\ AuthCycleRejected(c, result)
         /\ UNCHANGED <<cleanupRegistered, effectDeps, mounted, frameSeq>>
         /\ UNCHANGED authFrozen

\* a scheduled timeout fires: onSuccess(emp), the portal's handleAuthSuccess,
\* which leaves the sign-in screen once the employee's data is loaded
AuthSuccessTimeout ==
    \E i \in 1..Len(onSuccessTimers), dataLoaded \in BOOLEAN :
      /\ component = "FaceAuth"
      /\ ~onSuccessTimers[i].fired
      /\ onSuccessTimers' = [onSuccessTimers EXCEPT ![i].fired = TRUE]
      /\ IF dataLoaded /\ mounted
         THEN /\ mounted' = FALSE
              /\ intervalRef' = FALSE
              /\ cleanupRegistered' = FALSE
              /\ inflight' = IF intervalRef THEN MarkStopped(inflight)
                             ELSE inflight
         ELSE UNCHANGED <<mounted, intervalRef, cleanupRegistered, inflight>>
      /\ UNCHANGED <<matches, lastResult, prevMatches, events, status, message,
                     matchStreak, employees, employeesRef, effectDeps,
                     frameSeq, fed, lastCycle>>
      /\ UNCHANGED authFrozen

\* the screen unmounts (onBack): the cleanups of the effects run
AuthUnmount ==
    /\ component = "FaceAuth"
    /\ mounted
    /\ mounted' = FALSE
    /\ intervalRef' = FALSE
    /\ cleanupRegistered' = FALSE
    /\ inflight' = IF intervalRef THEN MarkStopped(inflight) ELSE inflight
    /\ UNCHANGED <<matches, lastResult, prevMatches, events, status, message,
                   matchStreak, employees, employeesRef, effectDeps,
                   frameSeq, fed, lastCycle, authVars>>
    /\ UNCHANGED authFrozen

AuthNext ==
    \/ AuthInitDone
    \/ AuthInitFail
    \/ AuthRender
    \/ AuthReadyTimer
    \/ AuthTick
    \/ AuthDetectResolved
    \/ AuthSuccessTimeout
    \/ AuthUnmount

\* one of the screens that poll the camera is mounted
ScreensInit == Init \/ SignUpInit \/ AuthInit

ScreensNext == Next \/ SignUpNext \/ AuthNext

ScreensSpec == ScreensInit /\ [][ScreensNext]_vars

\* ------------------------------------------------------- model loading
\* modelsLoading holds the promise of a load: loads[id] tells how the load
\* with that id ended, 0 stands for null. callers[i].awaits is the load the
\* i-th call awaits, 0 when it returned without awaiting one.

\* mutant: a call during a load starts another load
LoadFaceModels_AlwaysStarts(loaded, loading, started) ==
    IF loaded
    THEN [modelsLoading |-> loading, loads |-> started, awaits |-> 0]
    ELSE [modelsLoading |-> Len(started) + 1,
          loads |-> Append(started, "pending"),
          awaits |-> Len(started) + 1]

\* loadFaceModels up to its return: the async function stored in
\* modelsLoading runs to its first await before the assignment completes
LoadFaceModels(loaded, loading, started) ==
    IF loaded
    THEN \* Already loaded
         [modelsLoading |-> loading, loads |-> started, awaits |-> 0]
    ELSE IF loading # 0
    THEN \* Already loading - wait for existing load
         [modelsLoading |-> loading, loads |-> started, awaits |-> loading]
    ELSE \* Start loading and store the promise
         [modelsLoading |-> Len(started) + 1,
          loads |-> Append(started, "pending"),
          awaits |-> Len(started) + 1]

\* a component calls loadFaceModels()
LoaderLoadFaceModels ==
    LET r == LoadFaceModels(modelsLoaded, modelsLoading, loads)
    IN /\ Len(callers) < MaxCallers
       /\ Len(r.loads) <= MaxLoads
       /\ modelsLoading' = r.modelsLoading
       /\ loads' = r.loads
       /\ callers' = Append(callers, [fn |-> "loadFaceModels",
                                      awaits |-> r.awaits])
       /\ UNCHANGED <<trackerVars, sessionVars, callVars, authVars,
                      modelsLoaded>>

\* preloadFaceModels(): returns at once when loaded or loading, otherwise
\* calls loadFaceModels and catches its failure
LoaderPreloadFaceModels ==
    /\ Len(callers) < MaxCallers
    /\ IF modelsLoaded \/ modelsLoading # 0
       THEN /\ callers' = Append(callers, [fn |-> "preloadFaceModels",
                                           awaits |-> 0])
            /\ UNCHANGED <<modelsLoading, loads>>
       ELSE LET r == LoadFaceModels(modelsLoaded, modelsLoading, loads)
            IN /\ Len(r.loads) <= MaxLoads
               /\ modelsLoading' = r.modelsLoading
               /\ loads' = r.loads
               /\ callers' = Append(callers, [fn |-> "preloadFaceModels",
                                              awaits |-> r.awaits])
    /\ UNCHANGED <<trackerVars, sessionVars, callVars, authVars, modelsLoaded>>

\* detectFace(video) up to its first await:
\* `if (!modelsLoaded) await loadFaceModels()`
LoaderDetectFace ==
    /\ Len(callers) < MaxCallers
    /\ IF modelsLoaded
       THEN /\ callers' = Append(callers, [fn |-> "detectFace", awaits |-> 0])
            /\ UNCHANGED <<modelsLoading, loads>>
       ELSE LET r == LoadFaceModels(modelsLoaded, modelsLoading, loads)
            IN /\ Len(r.loads) <= MaxLoads
               /\ modelsLoading' = r.modelsLoading
               /\ loads' = r.loads
               /\ callers' = Append(callers, [fn |-> "detectFace",
                                              awaits |-> r.awaits])
    /\ UNCHANGED <<trackerVars, sessionVars, callVars, authVars, modelsLoaded>>

\* the three nets of a load are fetched: modelsLoaded = true
LoadResolved ==
    \E id \in 1..Len(loads) :
      /\ loads[id] = "pending"
      /\ loads' = [loads EXCEPT ![id] = "loaded"]
      /\ modelsLoaded' = TRUE
      /\ UNCHANGED <<trackerVars, sessionVars, callVars, authVars,
                     modelsLoading, callers>>

\* a fetch of a load fails: "Reset so it can be retried", then rethrow
LoadRejected ==
    \E id \in 1..Len(loads) :
      /\ loads[id] = "pending"
      /\ loads' = [loads EXCEPT ![id] = "failed"]
      /\ modelsLoading' = 0
      /\ UNCHANGED <<trackerVars, sessionVars, callVars, authVars,
                     modelsLoaded, callers>>

LoaderNext ==
    \/ LoaderLoadFaceModels
    \/ LoaderPreloadFaceModels
    \/ LoaderDetectFace
    \/ LoadResolved
    \/ LoadRejected

LoaderSpec == Init /\ [][LoaderNext]_vars

\* ------------------------------------------------- tracker driven directly
\* new ConsecutiveMatchTracker(requiredMatches)
TrackerInit ==
    /\ requiredMatches \in 1..MaxRequired
    /\ matches = <<>>
    /\ lastResult = NoResult
    /\ prevMatches = <<>>
    /\ events = <<>>
    /\ SessionIdle
    /\ call = NoCall
    /\ returned = NotReturned
    /\ onSuccessTimers = <<>>
    /\ LoaderIdle

TrackerAddMatch ==
    /\ Len(events) < MaxEvents
    /\ \E x \in MatchArgs :
         LET r == AddMatch(matches, requiredMatches, x)
         IN /\ matches' = r.matches
            /\ lastResult' = r.result
            /\ prevMatches' = matches
            /\ events' = Append(events, AddEvent(x))
    /\ UNCHANGED requiredMatches
    /\ UNCHANGED sessionVars
    /\ UNCHANGED <<callVars, authVars, loaderVars>>

TrackerReset ==
    /\ Len(events) < MaxEvents
    /\ matches' = Reset(matches)
    /\ prevMatches' = matches
    /\ events' = Append(events, ResetEvent)
    /\ UNCHANGED <<requiredMatches, lastResult>>
    /\ UNCHANGED sessionVars
    /\ UNCHANGED <<callVars, authVars, loaderVars>>

TrackerNext == TrackerAddMatch \/ TrackerReset

TrackerSpec == TrackerInit /\ [][TrackerNext]_vars

\* ------------------------------------- exported functions called directly
\* one call of detectFace on a frame
DetectFaceCalls ==
    {[fn |-> "detectFace", detection |-> d] : d \in Detections \cup {NoDetection}}

\* orders in which the n keys of a stored object can iterate
KeyOrders(n) ==
    {p \in [1..n -> 1..n] : \A i, j \in 1..n : i # j => p[i] # p[j]}

\* descriptors enrolled in the rosters; the captured descriptor is <<0, 0>>,
\* so their distances are 30, 30, 50, 130, 500, 549, 550 and 551
EnrolledDescriptors ==
    { <<30, 0>>, <<0, 30>>, <<0, 50>>, <<0, 130>>, <<300, 400>>,
      <<549, 0>>, <<330, 440>>, <<0, 551>> }

\* an Employee row: `enrolled` is the descriptor its face_encoding was made
\* from at sign-up, which the matcher never sees
RosterEntries ==
    {[id |-> id, enrolled |-> d,
      face_encoding |-> Stored(DescriptorToObject(d), order)] :
        id \in RosterIds, d \in EnrolledDescriptors, order \in KeyOrders(2)}
    \cup {[id |-> id, enrolled |-> NoDescriptor, face_encoding |-> NullEncoding] :
            id \in RosterIds}

\* rosters: up to MaxRoster employees with distinct ids, in every order
EmployeeLists ==
    UNION {{r \in [1..n -> RosterEntries] :
              \A i, j \in 1..n : i # j => r[i].id # r[j].id} : n \in 0..MaxRoster}

FindMatchingEmployeeCalls ==
    {[fn |-> "findMatchingEmployee", descriptor |-> <<0, 0>>, employees |-> r] :
        r \in EmployeeLists}

\* descriptorToObject(descriptor), stored, and read back with its keys in
\* iteration order keyOrder
DescriptorToObjectCalls ==
    {[fn |-> "descriptorToObject", descriptor |-> d, keyOrder |-> order] :
        d \in {<<7, 8, 9>>, <<9, 7, 7>>, <<0, 0, 5>>}, order \in KeyOrders(3)}
    \cup
    {[fn |-> "descriptorToObject",
      descriptor |-> <<10, 11, 12, 13, 14, 15, 16, 17, 18, 19, 20>>,
      keyOrder |-> order] :
        order \in { <<1, 2, 3, 4, 5, 6, 7, 8, 9, 10, 11>>,
                    <<11, 10, 9, 8, 7, 6, 5, 4, 3, 2, 1>>,
                    <<1, 2, 11, 3, 4, 5, 6, 7, 8, 9, 10>> }}

\* calculateQualityScore(detection), as detectFace calls it
CalculateQualityScoreCalls ==
    {[fn |-> "calculateQualityScore", detection |-> d] : d \in Detections}

Calls == DetectFaceCalls \cup FindMatchingEmployeeCalls
             \cup DescriptorToObjectCalls \cup CalculateQualityScoreCalls

CallInit ==
    /\ requiredMatches = REQUIRED_CONSECUTIVE_MATCHES
    /\ matches = <<>>
    /\ lastResult = NoResult
    /\ prevMatches = <<>>
    /\ events = <<>>
    /\ SessionIdle
    /\ call \in Calls
    /\ returned = NotReturned
    /\ onSuccessTimers = <<>>
    /\ LoaderIdle

CallDetectFace ==
    /\ call.fn = "detectFace"
    /\ ~returned.done
    /\ returned' = Returned(DetectFace(call.detection))
    /\ UNCHANGED <<trackerVars, sessionVars, call, authVars, loaderVars>>

CallFindMatchingEmployee ==
    /\ call.fn = "findMatchingEmployee"
    /\ ~returned.done
    /\ returned' = Returned(FindMatchingEmployee(call.descriptor, call.employees))
    /\ UNCHANGED <<trackerVars, sessionVars, call, authVars, loaderVars>>

CallDescriptorToObject ==
    /\ call.fn = "descriptorToObject"
    /\ ~returned.done
    /\ returned' = Returned(Stored(DescriptorToObject(call.descriptor),
                                   call.keyOrder))
    /\ UNCHANGED <<trackerVars, sessionVars, call, authVars, loaderVars>>

CallCalculateQualityScore ==
    /\ call.fn = "calculateQualityScore"
    /\ ~returned.done
    /\ returned' = Returned(CalculateQualityScore(call.detection))
    /\ UNCHANGED <<trackerVars, sessionVars, call, authVars, loaderVars>>

CallNext ==
    \/ CallDetectFace
    \/ CallFindMatchingEmployee
    \/ CallDescriptorToObject
    \/ CallCalculateQualityScore

CallSpec == CallInit /\ [][CallNext]_vars

\* --------------------------------------------------- reading the call log
LastEvent == events[Len(events)]

\* the latest call on the tracker was addMatch(x)
JustAdded(x) == events # <<>> /\ LastEvent = AddEvent(x)

\* number of addMatch(id) calls at the end of the log
RECURSIVE RunLen(_, _)
RunLen(evs, id) ==
    IF evs = <<>> \/ evs[Len(evs)] # AddEvent(id) THEN 0
    ELSE 1 + RunLen(SubSeq(evs, 1, Len(evs) - 1), id)

\* the call that precedes the final k calls left the tracker Empty
RunFromEmpty(k) ==
    \/ Len(events) = k
    \/ /\ Len(events) > k
       /\ LET e == events[Len(events) - k]
          IN e = ResetEvent \/ (e.op = "addMatch" /\ Falsy(e.id))

CountOf(id) == Cardinality({i \in 1..Len(events) : events[i] = AddEvent(id)})

\* ------------------------------------------------------------------ claims

\* C1: at most one detection cycle is in flight at any time, and addMatch
\* calls reach the tracker in the order the frames were captured.
C1_Original ==
    /\ Cardinality({c \in inflight : c.phase = "detectFace"}) <= 1
    /\ \A i, j \in 1..Len(fed) : i < j => fed[i] < fed[j]

\* C2: a detection started before its interval was cleared and resolving
\* after it performs no addMatch and no status, message or matched-employee
\* update.
C2_Original ==
    [][\A c \in inflight :
          (c.phase = "detectFace" /\ c.stopped /\ c \notin inflight') =>
              /\ events' = events
              /\ matches' = matches
              /\ status' = status
              /\ message' = message
              /\ matchedEmployee' = matchedEmployee]_vars

\* C3: once addMatch has returned confirmed=true, the next call applied to
\* the tracker is reset(): no further addMatch is applied before it.
C3_Original ==
    [][(/\ events # <<>>
        /\ LastEvent.op = "addMatch"
        /\ lastResult.confirmed
        /\ events' # events) => events'[Len(events')] = ResetEvent]_vars

\* C4: whenever addMatch returns confirmed=true for an id, the latest
\* requiredMatches calls on the tracker were all addMatch of that id.
C4_ConfirmedOnlyAfterUnbrokenRun ==
    (events # <<>> /\ LastEvent.op = "addMatch" /\ lastResult.confirmed) =>
        /\ lastResult.employeeId \in EmployeeIds
        /\ Len(events) >= requiredMatches
        /\ \A i \in (Len(events) - requiredMatches + 1)..Len(events) :
               events[i] = AddEvent(lastResult.employeeId)

\* C4 witness: an id is confirmed although another id was fed more often.
C4_Witness ==
    /\ events # <<>> /\ LastEvent.op = "addMatch" /\ lastResult.confirmed
    /\ requiredMatches >= 2
    /\ \E other \in EmployeeIds : CountOf(other) > CountOf(lastResult.employeeId)

\* C5: addMatch(null) leaves the tracker Empty and returns
\* confirmed=false, employeeId=null, streak=0, whatever the state before.
C5_NullEmptiesTracker ==
    JustAdded(NULL) =>
        /\ matches = <<>>
        /\ GetStreak(matches) = 0
        /\ lastResult = [confirmed |-> FALSE, employeeId |-> NULL, streak |-> 0]

\* C5 witness: addMatch(null) was called on a tracker holding a streak.
C5_Witness == JustAdded(NULL) /\ Len(prevMatches) >= 2 /\ requiredMatches >= 2

\* C6 as stated: addMatch(id) on an Empty tracker gives Streaking(id, 1),
\* not confirmed, streak 1, for every requiredMatches >= 1.
C6_Original ==
    \A id \in EmployeeIds :
        (JustAdded(id) /\ prevMatches = <<>>) =>
            /\ matches = <<id>>
            /\ lastResult.confirmed = FALSE
            /\ lastResult.streak = 1

\* C6 amended: addMatch(id) on an Empty tracker gives Streaking(id, 1) and
\* streak 1; it is confirmed exactly when requiredMatches = 1.
C6_FirstMatchFromEmpty ==
    \A id \in EmployeeIds :
        (JustAdded(id) /\ prevMatches = <<>>) =>
            /\ matches = <<id>>
            /\ lastResult.employeeId = id
            /\ lastResult.streak = 1
            /\ lastResult.confirmed = (requiredMatches = 1)

\* C6 witness: the first match on an Empty tracker with requiredMatches = 1.
C6_Witness ==
    /\ JustAdded("E1") /\ prevMatches = <<>>
    /\ requiredMatches = 1 /\ lastResult.confirmed

\* C7: with requiredMatches = 1 a single addMatch(id) on a fresh or reset
\* tracker returns confirmed=true, employeeId=id, streak=1.
C7_SingleMatchConfirms ==
    \A id \in EmployeeIds :
        ( /\ requiredMatches = 1
          /\ JustAdded(id)
          /\ (Len(events) = 1 \/ events[Len(events) - 1] = ResetEvent) ) =>
            lastResult = [confirmed |-> TRUE, employeeId |-> id, streak |-> 1]

\* C7 witness: the tracker held another id, was reset, and was fed once.
C7_Witness ==
    /\ requiredMatches = 1
    /\ Len(events) = 3
    /\ events[1] = AddEvent("E2") /\ events[2] = ResetEvent
    /\ JustAdded("E1") /\ lastResult.confirmed

\* C8 as stated: the k-th of k consecutive addMatch(id) from Empty returns
\* streak = k and confirmed = (k >= requiredMatches), for every k.
C8_Original ==
    \A id \in EmployeeIds :
        LET k == RunLen(events, id)
        IN (k >= 1 /\ RunFromEmpty(k)) =>
              /\ lastResult.streak = k
              /\ lastResult.confirmed = (k >= requiredMatches)

\* C8 amended: the k-th of k consecutive addMatch(id) from Empty returns
\* streak = min(k, requiredMatches + 2) and confirmed = (k >= requiredMatches).
C8_StreakSaturates ==
    \A id \in EmployeeIds :
        LET k == RunLen(events, id)
        IN (k >= 1 /\ RunFromEmpty(k)) =>
              /\ lastResult.streak = Min(k, requiredMatches + 2)
              /\ GetStreak(matches) = Min(k, requiredMatches + 2)
              /\ lastResult.employeeId = id
              /\ lastResult.confirmed = (k >= requiredMatches)

\* C8 witness: a run from Empty longer than requiredMatches + 2.
C8_Witness ==
    \E id \in EmployeeIds :
        /\ RunLen(events, id) = requiredMatches + 3
        /\ RunFromEmpty(requiredMatches + 3)
        /\ lastResult.streak = requiredMatches + 2

\* C9: from Streaking(id, n), addMatch(id2) with id2 # id resets the tracker
\* to Streaking(id2, 1) and returns confirmed=false, employeeId=id2, streak=1.
C9_OtherPersonResets ==
    \A id2 \in EmployeeIds :
        ( /\ JustAdded(id2)
          /\ prevMatches # <<>>
          /\ prevMatches[Len(prevMatches)] # id2 ) =>
            /\ matches = <<id2>>
            /\ lastResult = [confirmed |-> FALSE, employeeId |-> id2, streak |-> 1]

\* C9 witness: a streak of two or more was broken by another id.
C9_Witness ==
    /\ JustAdded("E2")
    /\ Len(prevMatches) >= 2
    /\ prevMatches[Len(prevMatches)] = "E1"

\* C10: the stored history never has more than requiredMatches + 2 entries.
C10_HistoryBounded == Len(matches) <= requiredMatches + 2

\* C10 witness: a run longer than requiredMatches + 2 was fed and trimmed.
C10_Witness ==
    \E id \in EmployeeIds :
        /\ RunLen(events, id) > requiredMatches + 2
        /\ Len(matches) = requiredMatches + 2

\* C11: reset() from any tracker state yields Empty: getStreak() is 0 and
\* the next addMatch(id) reports streak 1, whatever was fed before.
C11_ResetEmpties ==
    /\ (events # <<>> /\ LastEvent = ResetEvent) =>
           (matches = <<>> /\ GetStreak(matches) = 0)
    /\ \A id \in EmployeeIds :
           ( /\ Len(events) >= 2
             /\ JustAdded(id)
             /\ events[Len(events) - 1] = ResetEvent ) =>
               (lastResult.streak = 1 /\ matches = <<id>>)

\* C11 witness: a streak of two was reset and another id was fed next.
C11_Witness ==
    /\ Len(events) = 4
    /\ events[1] = AddEvent("E2") /\ events[2] = AddEvent("E2")
    /\ events[3] = ResetEvent /\ JustAdded("E1")
    /\ lastResult.streak = 1

\* the five gates of detectFace, each as a condition on the detection alone
GateFails(i, d) ==
    CASE i = 1 -> ~d.detected
      [] i = 2 -> d.detected /\ d.score < MIN_DETECTION_CONFIDENCE
      [] i = 3 -> d.detected /\ FaceArea(d) < MIN_FACE_AREA
      [] i = 4 -> d.detected /\ 2 * CalculateQualityScore(d) < QualityScale
      [] i = 5 -> d.detected /\ CalculateLivenessScore(d) < MIN_LIVENESS_SCORE

GateMessage ==
    << "No face detected. Please position your face in the frame.",
       "Face unclear. Please improve lighting and hold still.",
       "Please move closer to the camera.",
       "Please face the camera directly and hold still.",
       "Please keep your eyes open and look at the camera." >>

FailingGates(d) == {i \in 1..5 : GateFails(i, d)}

FirstFailingGate(d) ==
    CHOOSE i \in FailingGates(d) : \A j \in FailingGates(d) : i <= j

DetectFaceReturned == call.fn = "detectFace" /\ returned.done

\* C12: detectFace applies its five gates in the fixed order no-detection,
\* confidence, area, quality, liveness; the message returned is that of the
\* first failing gate, the five messages are distinct, and every detection
\* with confidence below 0.5 gets 'Face unclear' whatever its other measures.
C12_FirstFailingGateReported ==
    /\ \A i, j \in 1..5 : i # j => GateMessage[i] # GateMessage[j]
    /\ DetectFaceReturned =>
         LET d == call.detection
         IN /\ FailingGates(d) # {} =>
                 returned.value.message = GateMessage[FirstFailingGate(d)]
            /\ FailingGates(d) = {} =>
                 \A i \in 1..5 : returned.value.message # GateMessage[i]
            /\ (d.detected /\ d.score < MIN_DETECTION_CONFIDENCE) =>
                 returned.value.message = GateMessage[2]

\* C12 witness: a frame failing the confidence, area, quality and liveness
\* gates together was reported as unclear.
C12_Witness ==
    /\ DetectFaceReturned
    /\ FailingGates(call.detection) = {2, 3, 4, 5}
    /\ returned.value.message = GateMessage[2]

\* C13 as stated: every detection whose box area is below 10000 is rejected
\* with 'move closer', whatever its confidence, quality and liveness.
C13_Original ==
    (DetectFaceReturned /\ call.detection.detected
       /\ FaceArea(call.detection) < MIN_FACE_AREA) =>
        returned.value.message = "Please move closer to the camera."

\* C13 amended: every detection with confidence at least 0.5 whose box area
\* is below 10000 is rejected with 'move closer', whatever its quality and
\* liveness; a small face with confidence below 0.5 is rejected as unclear.
C13_SmallFaceRejected ==
    (DetectFaceReturned /\ call.detection.detected
       /\ FaceArea(call.detection) < MIN_FACE_AREA) =>
        /\ returned.value.descriptor = NoDescriptor
        /\ returned.value.message =
             IF call.detection.score >= MIN_DETECTION_CONFIDENCE
             THEN "Please move closer to the camera."
             ELSE "Face unclear. Please improve lighting and hold still."

\* C13 witness: a confident, well-posed, live but small face is told to
\* move closer.
C13_Witness ==
    /\ DetectFaceReturned
    /\ FailingGates(call.detection) = {3}
    /\ returned.value.message = "Please move closer to the camera."

\* a detection cycle has just completed in this step
CycleCompleted == lastCycle' # lastCycle

\* the cycle completed last ended in no-detection, a gate rejection or no
\* roster match
CycleWasRejected == ~lastCycle.matcherCalled \/ lastCycle.match = NULL

\* C14: detectFace returns a non-null descriptor if and only if a face was
\* detected with confidence >= 0.5, box area >= 10000, quality >= 0.5 and
\* liveness >= 0.4; the clock-in loop never calls findMatchingEmployee for
\* a frame that failed one of these gates.
C14_DescriptorIffAllGatesPass ==
    lastCycle # NoCycle =>
        LET d == lastCycle.detection
            allPass == /\ d.detected
                       /\ d.score >= MIN_DETECTION_CONFIDENCE
                       /\ FaceArea(d) >= MIN_FACE_AREA
                       /\ 2 * CalculateQualityScore(d) >= QualityScale
                       /\ CalculateLivenessScore(d) >= MIN_LIVENESS_SCORE
        IN /\ (lastCycle.result.descriptor # NoDescriptor) <=> allPass
           /\ lastCycle.matcherCalled =>
                (allPass /\ lastCycle.result.descriptor = d.descriptor)

\* C14 witness: a frame exactly on the area and liveness limits passed and
\* was handed to the matcher.
C14_Witness ==
    /\ lastCycle # NoCycle
    /\ lastCycle.matcherCalled
    /\ FaceArea(lastCycle.detection) = MIN_FACE_AREA
    /\ CalculateLivenessScore(lastCycle.detection) = MIN_LIVENESS_SCORE

C20_Original ==
    [][ (CycleCompleted /\ CycleWasRejected') =>
            (intervalRef' = intervalRef /\ status' = status) ]_vars

\* C20 amended: the above holds for every rejection of the clock-in loop and
\* for no-detection and gate rejections of the enrolment loop. On the
\* enrolment screen a frame that passes and has no roster match is the
\* accepted outcome: if its image is captured the polling stops and the
\* status becomes 'confirming', never 'error'.
C20_RejectionKeepsPolling ==
    [][ (CycleCompleted /\ CycleWasRejected') =>
            IF component = "SignUpEmployee" /\ lastCycle'.matcherCalled
            THEN \/ (intervalRef' = intervalRef /\ status' = status)
                 \/ /\ ~intervalRef'
                    /\ status' = SetState("confirming", status)
                    /\ capturedDescriptor' =
                         SetState(lastCycle'.result.descriptor, capturedDescriptor)
            ELSE intervalRef' = intervalRef /\ status' = status ]_vars

\* C20 witness: on the clock-in screen a frame was rejected, the timer is
\* still active and a tick after that rejection has started the next cycle.
C20_Witness ==
    /\ component = "ClockInOut"
    /\ lastCycle # NoCycle
    /\ ~lastCycle.matcherCalled
    /\ intervalRef
    /\ status = "detecting"
    /\ fed = <<lastCycle.frame>>
    /\ \E c \in inflight : c.fedBefore = 1 /\ c.frame > lastCycle.frame

MatcherReturned == call.fn = "findMatchingEmployee" /\ returned.done

\* distance of roster entry i from the captured descriptor, taken from the
\* descriptor that was enrolled
EnrolledDistance(i) ==
    CompareFaceDescriptors(call.descriptor, call.employees[i].enrolled)

\* roster entries that have an encoding
Encoded == {i \in 1..Len(call.employees) :
              call.employees[i].face_encoding # NullEncoding}

\* roster entries strictly below the match threshold
BelowThreshold == {i \in Encoded : EnrolledDistance(i) < MATCH_THRESHOLD}

\* the earliest entry among those at minimum distance
Nearest ==
    CHOOSE i \in BelowThreshold :
        \A j \in BelowThreshold :
            \/ EnrolledDistance(i) < EnrolledDistance(j)
            \/ (EnrolledDistance(i) = EnrolledDistance(j) /\ i <= j)

\* the second-smallest distance among the entries below the threshold
SecondSmallest ==
    LET others == BelowThreshold \ {Nearest}
    IN IF others = {} THEN Infinity
       ELSE EnrolledDistance(CHOOSE i \in others :
                \A j \in others : EnrolledDistance(i) <= EnrolledDistance(j))

\* C16: findMatchingEmployee returns null when no enrolled descriptor is at
\* a distance strictly below 0.55: a distance of exactly 0.55 is no match,
\* and an employee whose face_encoding is null is never the match.
C16_NoMatchAtOrAboveThreshold ==
    MatcherReturned =>
        /\ BelowThreshold = {} => ~returned.value.found
        /\ returned.value.found =>
             \E i \in BelowThreshold :
                 call.employees[i].id = returned.value.employeeId

\* C16 witness: a roster with an employee at exactly 0.55, one above it and
\* one without encoding returned null.
C16_Witness ==
    /\ MatcherReturned
    /\ Len(call.employees) = 3
    /\ \E i \in Encoded : EnrolledDistance(i) = MATCH_THRESHOLD
    /\ \E i \in Encoded : EnrolledDistance(i) > MATCH_THRESHOLD
    /\ Cardinality(Encoded) = 2
    /\ ~returned.value.found

\* C17: when at least one enrolled descriptor is below the threshold the
\* matcher returns the employee at minimum distance over the whole roster,
\* the earliest in roster order on an exact tie, with that minimum as the
\* distance; the second-best distance it tracks is the second-smallest
\* distance among the below-threshold entries, for every roster order.
C17_BestAndSecondBest ==
    (MatcherReturned /\ BelowThreshold # {}) =>
        /\ returned.value.found
        /\ returned.value.employeeId = call.employees[Nearest].id
        /\ returned.value.distance = EnrolledDistance(Nearest)
        /\ \A i \in Encoded : returned.value.distance <= EnrolledDistance(i)
        /\ MatchLoop(call.descriptor, call.employees).secondBestDistance
             = SecondSmallest

\* C17 witness: the two nearest employees tie and come after a farther one;
\* the earlier of the two is returned and the tie is the second best.
C17_Witness ==
    /\ MatcherReturned
    /\ Len(call.employees) = 3
    /\ BelowThreshold = {1, 2, 3}
    /\ EnrolledDistance(1) > EnrolledDistance(2)
    /\ EnrolledDistance(2) = EnrolledDistance(3)
    /\ returned.value.employeeId = call.employees[2].id
    /\ SecondSmallest = EnrolledDistance(3)

\* C18: the confidence is (0.55 - best) / 0.55, halved exactly when a second
\* below-threshold entry exists with secondBest - best < 0.1 and unhalved
\* otherwise; an ambiguous match is still returned; it lies in [0, 1].
C18_ConfidenceHalvedWhenAmbiguous ==
    (MatcherReturned /\ BelowThreshold # {}) =>
        LET best == EnrolledDistance(Nearest)
            ambiguous == /\ Cardinality(BelowThreshold) >= 2
                         /\ SecondSmallest - best < 100
        IN /\ returned.value.found
           /\ returned.value.confidence * MATCH_THRESHOLD
                 * (IF ambiguous THEN 2 ELSE 1)
                = (MATCH_THRESHOLD - best) * ConfidenceScale
           /\ returned.value.confidence >= 0
           /\ returned.value.confidence <= ConfidenceScale

\* C18 witness: entries at 0.03 and 0.05 gave the nearer one at half
\* confidence.
C18_Witness ==
    /\ MatcherReturned
    /\ Cardinality(BelowThreshold) = 2
    /\ EnrolledDistance(Nearest) = 30
    /\ SecondSmallest = 50
    /\ returned.value.found
    /\ 2 * returned.value.confidence * MATCH_THRESHOLD
         = (MATCH_THRESHOLD - 30) * ConfidenceScale

DescriptorToObjectReturned == call.fn = "descriptorToObject" /\ returned.done

\* C19: rebuilding the vector from descriptorToObject(d) as the matcher does
\* (keys sorted by their numeric value, then looked up) gives d in its
\* original order, whatever order the stored object's keys iterate in.
C19_RoundTrip ==
    DescriptorToObjectReturned =>
        /\ StoredDescriptor(returned.value) = call.descriptor
        /\ \A i \in 1..Len(call.descriptor) :
               Get(returned.value, ToString(i - 1)) = call.descriptor[i]

\* C19 witness: an eleven-entry object whose keys iterate in string order
\* ("0", "1", "10", "2", ...) was read back.
C19_Witness ==
    /\ DescriptorToObjectReturned
    /\ Len(call.descriptor) = 11
    /\ ObjectKeys(returned.value)[3] = "10"
    /\ StoredDescriptor(returned.value) = call.descriptor

\* C26 as stated: for every addMatch call, in every tracker state and for
\* every requiredMatches >= 1, the returned confirmed flag is true exactly
\* when the returned streak is at least requiredMatches.
C26_Original ==
    (events # <<>> /\ LastEvent.op = "addMatch") =>
        (lastResult.confirmed <=> lastResult.streak >= requiredMatches)

\* C27 as stated: on the clock-in screen, whenever status is 'detecting' and
\* no employee is matched, a polling interval is active, also when
\* handleRecapture was invoked while the getActiveTimeEntry call of the
\* confirmation was still pending.
C27_Original ==
    ( /\ component = "ClockInOut"
      /\ mounted
      /\ status = "detecting"
      /\ matchedEmployee = NULL
      /\ effectDeps = <<status, matchedEmployee>> ) => intervalRef

QualityScoreReturned == call.fn = "calculateQualityScore" /\ returned.done

\* C24: the quality score never exceeds confidence x sizeFactor, with
\* sizeFactor = 0.5 + 0.5 * min(area / 40000, 1) in [0.5, 1]; the tilt
\* penalty and the yaw penalty never increase the score; the result is at
\* most 1.0.
C24_QualityBounded ==
    QualityScoreReturned =>
        LET d == call.detection
            \* sizeFactor over 80000
            sizeFactor == 40000 + Min(FaceArea(d), 40000)
            level == [d EXCEPT !.eyeAngle = 0]
            frontal == [d EXCEPT !.horizontalOffset = 0]
        IN /\ 40000 <= sizeFactor /\ sizeFactor <= 80000
           /\ returned.value <= d.score * sizeFactor * 100
           /\ returned.value <= CalculateQualityScore(level)
           /\ returned.value <= CalculateQualityScore(frontal)
           /\ returned.value <= QualityScale

\* C24 witness: a tilted and turned face scored 0.42 of its baseline
\* confidence x sizeFactor.
C24_Witness ==
    /\ QualityScoreReturned
    /\ call.detection.eyeAngle > 20
    /\ call.detection.horizontalOffset * 10 > call.detection.eyeDistance * 3
    /\ returned.value =
         call.detection.score * (40000 + Min(FaceArea(call.detection), 40000)) * 42
    /\ CalculateQualityScore([call.detection EXCEPT
                                 !.eyeAngle = 0, !.horizontalOffset = 0]) =
         call.detection.score * (40000 + Min(FaceArea(call.detection), 40000)) * 100

Permuted(p) == [i \in 1..Len(call.employees) |-> call.employees[p[i]]]

\* two entries below the threshold share the minimum distance
TieAtMinimum ==
    \E i, j \in BelowThreshold :
        /\ i # j
        /\ EnrolledDistance(i) = EnrolledDistance(Nearest)
        /\ EnrolledDistance(j) = EnrolledDistance(Nearest)

\* C30: the distance and confidence returned by findMatchingEmployee, and
\* whether it returns null, are the same for every permutation of the
\* roster; the returned employeeId differs between permutations only when
\* two enrolled descriptors are at exactly the same minimum distance.
C30_PermutationInvariant ==
    MatcherReturned =>
        \A p \in KeyOrders(Len(call.employees)) :
            LET other == FindMatchingEmployee(call.descriptor, Permuted(p))
            IN /\ other.found = returned.value.found
               /\ other.found =>
                    /\ other.distance = returned.value.distance
                    /\ other.confidence = returned.value.confidence
                    /\ (other.employeeId # returned.value.employeeId)
                         => TieAtMinimum

\* C30 witness: a roster of three with a tie at the minimum, for which the
\* reversed roster gives the other employee at the same distance and
\* confidence.
C30_Witness ==
    /\ MatcherReturned
    /\ Len(call.employees) = 3
    /\ BelowThreshold = {1, 2, 3}
    /\ TieAtMinimum
    /\ LET other == FindMatchingEmployee(call.descriptor, Permuted(<<3, 2, 1>>))
       IN /\ other.employeeId # returned.value.employeeId
          /\ other.distance = returned.value.distance
          /\ other.confidence = returned.value.confidence

\* the employees of the last cycle's roster whose enrolled descriptor is at
\* distance 0 from the frame's descriptor
ExactlyEnrolled ==
    {id \in lastCycle.currentEmployees :
        CompareFaceDescriptors(lastCycle.detection.descriptor,
                               SessionEnrolled(id)) = 0}

\* the last cycle cleared the five gates with a descriptor at distance 0
\* from exactly one enrolled descriptor
ExactCycle ==
    /\ lastCycle # NoCycle
    /\ lastCycle.matcherCalled
    /\ Cardinality(ExactlyEnrolled) = 1

\* C23 as stated: with requiredMatches = 1, the first cycle whose detection
\* clears all five gates and whose descriptor is at distance 0 from exactly
\* one enrolled descriptor yields match confidence 1.0 and a confirmed
\* outcome carrying that employeeId, and goes on to stop the polling, whatever
\* came before it.  (In a session only a descriptor at distance 0 matches
\* E1, so the first such cycle for E1 is the first addMatch('E1').)
C23_Original ==
    [][ ( /\ component = "ClockInOut"
          /\ requiredMatches = 1
          /\ CycleCompleted
          /\ ExactCycle'
          /\ ExactlyEnrolled' = {"E1"}
          /\ CountOf("E1") = 0 ) =>
        ( /\ lastCycle'.match = "E1"
          /\ lastCycle'.confidence = ConfidenceScale
          /\ lastResult'.confirmed
          /\ lastResult'.employeeId = "E1"
          /\ \E c \in inflight' : /\ c.frame = lastCycle'.frame
                                  /\ c.phase = "getActiveTimeEntry" ) ]_vars

\* the threshold category a detected frame failed: the first failing gate of
\* detectFace, or the liveness threshold of the loop itself when detectFace
\* accepted the frame
FailedCategory(d) == IF FailingGates(d) # {} THEN FirstFailingGate(d) ELSE 5

\* C21 as stated: in every capture loop, whenever a detected frame is not
\* accepted for matching because of a confidence, size, quality or liveness
\* threshold, the message shown is the rejection message of the category
\* that failed, never a success or generic message.
C21_Original ==
    [][ ( /\ CycleCompleted
          /\ mounted
          /\ lastCycle'.detection.detected
          /\ ~lastCycle'.matcherCalled ) =>
        ( /\ message'.text = GateMessage[FailedCategory(lastCycle'.detection)]
          /\ message'.text # "Face verified successfully!" ) ]_vars

\* C28 as stated: in a face-auth session onSuccess is scheduled at most
\* once, for every interleaving of ticks and detectFace completions; cycles
\* in flight when the first confirmation clears the interval produce no
\* second confirmed outcome.
C28_Original ==
    component = "FaceAuth" => Len(onSuccessTimers) <= 1

PendingLoads == {id \in 1..Len(loads) : loads[id] = "pending"}

\* C29: model loading is single-flight and retryable. For every interleaving
\* of loadFaceModels, preloadFaceModels and detectFace calls, at most one
\* load is in progress, it is the load modelsLoading holds, and the callers
\* that wait all await that load; modelsLoaded never goes from true back to
\* false; a failed load resets modelsLoading, and a call made when nothing
\* is loaded and no load is in progress starts a new load, never awaiting a
\* failed one.
C29_SingleFlightRetryable ==
    [][ /\ Cardinality(PendingLoads') <= 1
        /\ \A id \in PendingLoads' : modelsLoading' = id
        /\ \A i \in 1..Len(callers') :
             (callers'[i].awaits \in PendingLoads')
                => callers'[i].awaits = modelsLoading'
        /\ modelsLoaded => modelsLoaded'
        /\ (\E id \in PendingLoads : loads'[id] = "failed")
             => modelsLoading' = 0
        /\ Len(callers') > Len(callers) =>
             LET c == callers'[Len(callers')]
             IN /\ c.awaits # 0 => loads'[c.awaits] = "pending"
                /\ c.awaits = 0 => (modelsLoaded \/ modelsLoading # 0)
                /\ (~modelsLoaded /\ PendingLoads = {}) =>
                      /\ Len(loads') = Len(loads) + 1
                      /\ c.awaits = Len(loads') ]_vars

\* C29 witness: the first load failed; a later call started a second load,
\* which another caller joined.
C29_Witness ==
    /\ Len(loads) = 2
    /\ loads[1] = "failed"
    /\ loads[2] = "pending"
    /\ modelsLoading = 2
    /\ ~modelsLoaded
    /\ Len(callers) = 3
    /\ callers[1].awaits = 1
    /\ callers[2].awaits = 2
    /\ callers[3].awaits = 2

====
